---------------------------- MODULE Spec2Model ----------------------------
(***************************************************************************)
(* A model of metadata-expert: the GPS conversions of GPSHandler, the tag  *)
(* store of TaggingSystem and the backup / edit / restore sequences of the *)
(* viewers.                                                                *)
(*                                                                         *)
(* Python floats are IEEE-754 binary64 values.  They are modelled exactly: *)
(* a float is a sign and a magnitude m * 2^e whose mantissa m is a natural *)
(* number of at most 53 bits, kept as a little-endian sequence of 15-bit   *)
(* limbs because the model checker's integers are 32 bits wide.  Every     *)
(* arithmetic operation rounds to nearest, ties to even, as the hardware   *)
(* does.  All values the modelled code produces lie far inside the normal  *)
(* range, so subnormals, infinities and NaN are not represented.           *)
(***************************************************************************)
EXTENDS Integers, Sequences, FiniteSets, TLC

(***************************************************************************)
(* Natural numbers of arbitrary size                                       *)
(***************************************************************************)
LimbBits == 15
LimbBase == 32768

RECURSIVE Pow2(_)
Pow2(n) == IF n = 0 THEN 1 ELSE 2 * Pow2(n - 1)

RECURSIVE BNorm(_)
BNorm(a) ==
    IF a = <<>> THEN <<>>
    ELSE IF a[Len(a)] = 0 THEN BNorm(SubSeq(a, 1, Len(a) - 1))
    ELSE a

RECURSIVE BFromInt(_)
BFromInt(n) ==
    IF n = 0 THEN <<>> ELSE <<n % LimbBase>> \o BFromInt(n \div LimbBase)

RECURSIVE BToIntR(_, _)
BToIntR(a, i) ==
    IF i > Len(a) THEN 0 ELSE a[i] + LimbBase * BToIntR(a, i + 1)
BToInt(a) == BToIntR(a, 1)

BLimb(a, i) == IF i <= Len(a) THEN a[i] ELSE 0

RECURSIVE BAddR(_, _, _, _)
BAddR(a, b, i, c) ==
    IF i > Len(a) /\ i > Len(b)
    THEN (IF c = 0 THEN <<>> ELSE <<c>>)
    ELSE LET x == BLimb(a, i) + BLimb(b, i) + c
         IN  <<x % LimbBase>> \o BAddR(a, b, i + 1, x \div LimbBase)
BAdd(a, b) == BAddR(a, b, 1, 0)

\* a - b for a >= b
RECURSIVE BSubR(_, _, _, _)
BSubR(a, b, i, c) ==
    IF i > Len(a) THEN <<>>
    ELSE LET x == a[i] - BLimb(b, i) - c
         IN  IF x < 0 THEN <<x + LimbBase>> \o BSubR(a, b, i + 1, 1)
                      ELSE <<x>> \o BSubR(a, b, i + 1, 0)
BSub(a, b) == BNorm(BSubR(a, b, 1, 0))

\* comparison of normalised numbers: -1, 0 or 1
RECURSIVE BCmpR(_, _, _)
BCmpR(a, b, i) ==
    IF i = 0 THEN 0
    ELSE IF a[i] < b[i] THEN -1
    ELSE IF a[i] > b[i] THEN 1
    ELSE BCmpR(a, b, i - 1)
BCmp(a, b) ==
    IF Len(a) < Len(b) THEN -1
    ELSE IF Len(a) > Len(b) THEN 1
    ELSE BCmpR(a, b, Len(a))

\* a * k for 0 <= k < LimbBase
RECURSIVE BMulSmallR(_, _, _, _)
BMulSmallR(a, k, i, c) ==
    IF i > Len(a) THEN (IF c = 0 THEN <<>> ELSE <<c>>)
    ELSE LET x == a[i] * k + c
         IN  <<x % LimbBase>> \o BMulSmallR(a, k, i + 1, x \div LimbBase)
BMulSmall(a, k) == BNorm(BMulSmallR(a, k, 1, 0))

BShlLimbs(a, n) == IF a = <<>> THEN <<>> ELSE [i \in 1..n |-> 0] \o a

RECURSIVE BMulR(_, _, _)
BMulR(a, b, j) ==
    IF j > Len(b) THEN <<>>
    ELSE BAdd(BShlLimbs(BMulSmall(a, b[j]), j - 1), BMulR(a, b, j + 1))
BMul(a, b) == BNorm(BMulR(a, b, 1))

\* quotient and remainder of a by k, 0 < k < LimbBase
RECURSIVE BDivSmallR(_, _, _, _)
BDivSmallR(a, k, i, r) ==
    IF i = 0 THEN [q |-> <<>>, r |-> r]
    ELSE LET x    == r * LimbBase + a[i]
             rest == BDivSmallR(a, k, i - 1, x % k)
         IN  [q |-> rest.q \o <<x \div k>>, r |-> rest.r]
BDivSmall(a, k) ==
    LET d == BDivSmallR(a, k, Len(a), 0) IN [q |-> BNorm(d.q), r |-> d.r]

BShl(a, n) ==
    BShlLimbs(BMulSmall(a, Pow2(n % LimbBits)), n \div LimbBits)

BShr(a, n) ==
    IF n \div LimbBits >= Len(a) THEN <<>>
    ELSE BDivSmall(SubSeq(a, n \div LimbBits + 1, Len(a)),
                   Pow2(n % LimbBits)).q

RECURSIVE IntBitLen(_)
IntBitLen(n) == IF n = 0 THEN 0 ELSE 1 + IntBitLen(n \div 2)

BBitLen(a) ==
    IF a = <<>> THEN 0
    ELSE LimbBits * (Len(a) - 1) + IntBitLen(a[Len(a)])

BIsOdd(a) == a # <<>> /\ a[1] % 2 = 1


(***************************************************************************)
(* binary64 arithmetic                                                     *)
(*                                                                         *)
(* A float is [neg, m, e] with value (-1)^neg * m * 2^e, in canonical form *)
(* (m odd, or m = 0 and e = 0) so that equal values are equal records,     *)
(* except for the two zeros.                                               *)
(***************************************************************************)
MantBits == 53

RECURSIVE IntTrailingZeros(_)
IntTrailingZeros(n) == IF n % 2 = 1 THEN 0 ELSE 1 + IntTrailingZeros(n \div 2)

RECURSIVE FCanon(_, _, _)
FCanon(neg, m, e) ==
    IF m = <<>> THEN [neg |-> neg, m |-> <<>>, e |-> 0]
    ELSE IF m[1] = 0 THEN FCanon(neg, Tail(m), e + LimbBits)
    ELSE LET tz == IntTrailingZeros(m[1])
         IN  [neg |-> neg, m |-> BShr(m, tz), e |-> e + tz]

\* the float nearest to m * 2^e (plus a non-zero amount below the last bit of
\* m when sticky), ties to even
FRound(neg, m, e, sticky) ==
    LET L == BBitLen(m)
    IN  IF L <= MantBits THEN FCanon(neg, m, e)
        ELSE LET sh   == L - MantBits
                 q    == BShr(m, sh)
                 rem  == BSub(m, BShl(q, sh))
                 half == BShl(<<1>>, sh - 1)
                 c    == BCmp(rem, half)
                 up   == c > 0 \/ (c = 0 /\ (sticky \/ BIsOdd(q)))
             IN  FCanon(neg, IF up THEN BAdd(q, <<1>>) ELSE q, e + sh)

FZero == [neg |-> FALSE, m |-> <<>>, e |-> 0]
FIsZero(x) == x.m = <<>>

\* float(n) for an int n, |n| < 2^31
FFromInt(n) == FCanon(n < 0, BFromInt(IF n < 0 THEN -n ELSE n), 0)

FNeg(x) == [x EXCEPT !.neg = ~x.neg]
FAbs(x) == [x EXCEPT !.neg = FALSE]

\* the magnitudes of x and y brought to a common exponent
FAlign(x, y) ==
    LET e == IF x.e < y.e THEN x.e ELSE y.e
    IN  [a |-> BShl(x.m, x.e - e), b |-> BShl(y.m, y.e - e), e |-> e]

\* comparison of magnitudes: -1, 0, 1
FCmpMag(x, y) == LET al == FAlign(x, y) IN BCmp(al.a, al.b)

\* comparison of values: -1, 0, 1 (the two zeros compare equal)
FCmp(x, y) ==
    IF FIsZero(x) /\ FIsZero(y) THEN 0
    ELSE IF x.neg /\ ~y.neg THEN -1
    ELSE IF ~x.neg /\ y.neg THEN 1
    ELSE IF x.neg THEN FCmpMag(y, x) ELSE FCmpMag(x, y)

FLt(x, y) == FCmp(x, y) < 0
FLe(x, y) == FCmp(x, y) <= 0
FEq(x, y) == FCmp(x, y) = 0

\* x + y
FAdd(x, y) ==
    LET al == FAlign(x, y)
    IN  IF x.neg = y.neg THEN FRound(x.neg, BAdd(al.a, al.b), al.e, FALSE)
        ELSE IF BCmp(al.a, al.b) = 0 THEN FZero
        ELSE IF BCmp(al.a, al.b) > 0
             THEN FRound(x.neg, BSub(al.a, al.b), al.e, FALSE)
             ELSE FRound(y.neg, BSub(al.b, al.a), al.e, FALSE)

\* x - y
FSub(x, y) == FAdd(x, FNeg(y))

\* x * k for an int k, |k| < 2^15 (the int is converted exactly)
FMulInt(x, k) ==
    FRound(x.neg # (k < 0), BMulSmall(x.m, IF k < 0 THEN -k ELSE k), x.e, FALSE)

\* x / k for an int k, 0 < |k| < 2^15: the quotient is taken with GuardBits
\* extra bits and the remainder is the sticky bit
GuardBits == 75
FDivInt(x, k) ==
    LET d == BDivSmall(BShl(x.m, GuardBits), IF k < 0 THEN -k ELSE k)
    IN  FRound(x.neg # (k < 0), d.q, x.e - GuardBits, d.r # 0)

\* int(x): truncation toward zero
FTrunc(x) ==
    LET mag == IF x.e >= 0 THEN BShl(x.m, x.e) ELSE BShr(x.m, -x.e)
    IN  IF x.neg THEN -BToInt(mag) ELSE BToInt(mag)


\* x * y
FMul(x, y) == FRound(x.neg # y.neg, BMul(x.m, y.m), x.e + y.e, FALSE)

\* the integer square root of n, two bits of n at a time from the top, as
\* in the written method: rem is the running remainder, res the root so far
\* and j the index of the next pair of bits
BitPair(n, j) ==
    LET q == (2 * j) \div LimbBits + 1
        o == (2 * j) % LimbBits
    IN  ((BLimb(n, q) + LimbBase * BLimb(n, q + 1)) \div Pow2(o)) % 4

SqrtStep(s) ==
    LET rem1  == BAdd(BMulSmall(s.rem, 4), BFromInt(BitPair(s.n, s.j)))
        trial == BAdd(BMulSmall(s.res, 4), <<1>>)
    IN  IF BCmp(rem1, trial) >= 0
        THEN [n |-> s.n, j |-> s.j - 1, rem |-> BSub(rem1, trial),
              res |-> BAdd(BMulSmall(s.res, 2), <<1>>)]
        ELSE [n |-> s.n, j |-> s.j - 1, rem |-> rem1,
              res |-> BMulSmall(s.res, 2)]

\* k steps; the first half is computed to a value before the second half
\* starts, which keeps the evaluation shallow
RECURSIVE SqrtSteps(_, _)
SqrtSteps(s, k) ==
    IF k = 0 THEN s
    ELSE IF k = 1 THEN SqrtStep(s)
    ELSE CHOOSE r \in { SqrtSteps(h, k - k \div 2) :
                          h \in { SqrtSteps(s, k \div 2) } } : TRUE

\* root and remainder of the integer square root of n
BSqrt(n) ==
    LET top == (BBitLen(n) - 1) \div 2
    IN  IF n = <<>> THEN [n |-> n, j |-> 0, rem |-> <<>>, res |-> <<>>]
        ELSE SqrtSteps([n |-> n, j |-> top, rem |-> <<>>, res |-> <<>>],
                       top + 1)

\* x ** 0.5 for x >= 0, correctly rounded: the mantissa is scaled by a power
\* of two that leaves the exponent even and gives SqrtBits bits or one more,
\* so that the integer root carries at least two bits below the last
\* mantissa bit; a non-zero remainder is the sticky bit
SqrtBits == 110
FSqrt(x) ==
    IF FIsZero(x) THEN FZero
    ELSE LET s0 == SqrtBits - BBitLen(x.m)
             sh == s0 + ((x.e - s0) % 2)
             r  == BSqrt(BShl(x.m, sh))
         IN  FRound(FALSE, r.res, (x.e - sh) \div 2, r.rem # <<>>)

\* the decimal literal n / 10^4 as Python reads it: the float nearest to it
FDec4(n) == FDivInt(FFromInt(n), 10000)

\* format(x, '.4f'): the exact value of x rounded to four decimals, ties to
\* even, as sign, integer part and four-digit fraction
FFormat4(x) ==
    LET num  == BMulSmall(x.m, 10000)
        down == IF x.e < 0 THEN -x.e ELSE 0
        up   == IF x.e > 0 THEN x.e ELSE 0
        n    == BShr(BShl(num, up), down)
        rem2 == BShl(BSub(BShl(num, up), BShl(n, down)), 1)
        c    == BCmp(rem2, BShl(<<1>>, down))
        r    == IF c > 0 \/ (c = 0 /\ BIsOdd(n)) THEN BAdd(n, <<1>>) ELSE n
    IN  [neg |-> x.neg, int |-> BToInt(r) \div 10000, frac |-> BToInt(r) % 10000]

(***************************************************************************)
(* Python values                                                           *)
(*                                                                         *)
(* bytes are sequences of byte values; a value that takes part in an ==    *)
(* between objects of different types carries its type, because Python's   *)
(* == is False for an int and a bytes object whatever they hold.           *)
(***************************************************************************)
PyInt(n) == [t |-> "int", v |-> <<n>>]
PyBytes(b) == [t |-> "bytes", v |-> b]
PyEq(a, b) == a.t = b.t /\ a.v = b.v

\* b[i] for a bytes object b: Python 3 yields the int value of the byte
BytesIndex(b, i) == PyInt(b[i + 1])

ByteN == 78
ByteS == 83
ByteE == 69
ByteW == 87

(***************************************************************************)
(* GPSHandler: DMS <-> decimal                                             *)
(***************************************************************************)
\* a rational as piexif loads it: <<numerator, denominator>>, both unsigned
Rat(n, d) == <<n, d>>

\* _dms_to_decimal with the seconds divided by 360
DmsToDecimal_Seconds360(dms_data) ==
    IF Len(dms_data) < 3 \/ \E i \in 1..3 : dms_data[i][2] = 0
    THEN FZero
    ELSE LET degrees == FDivInt(FFromInt(dms_data[1][1]), dms_data[1][2])
             minutes == FDivInt(FDivInt(FFromInt(dms_data[2][1]),
                                        dms_data[2][2]), 60)
             seconds == FDivInt(FDivInt(FFromInt(dms_data[3][1]),
                                        dms_data[3][2]), 360)
         IN  FAdd(FAdd(degrees, minutes), seconds)

\* _dms_to_decimal: any exception (a zero denominator, a value with fewer
\* than three rationals) is caught and yields 0.0
DmsToDecimal(dms_data) ==
    IF Len(dms_data) < 3 \/ \E i \in 1..3 : dms_data[i][2] = 0
    THEN FZero
    ELSE LET degrees == FDivInt(FFromInt(dms_data[1][1]), dms_data[1][2])
             minutes == FDivInt(FDivInt(FFromInt(dms_data[2][1]),
                                        dms_data[2][2]), 60)
             seconds == FDivInt(FDivInt(FFromInt(dms_data[3][1]),
                                        dms_data[3][2]), 3600)
         IN  FAdd(FAdd(degrees, minutes), seconds)

\* the decomposition with the hundredths of a second rounded up
DecimalToDms_RoundUp(x) ==
    LET degrees == FTrunc(FAbs(x))
        frac    == FMulInt(FSub(FAbs(x), FFromInt(degrees)), 60)
        minutes == FTrunc(frac)
        seconds == FMulInt(FSub(frac, FFromInt(minutes)), 60)
    IN  << Rat(degrees, 1), Rat(minutes, 1),
           Rat(FTrunc(FMulInt(seconds, 100)) + 1, 100) >>

\* the three rationals set_gps_coordinates writes for a latitude or longitude
DecimalToDms(x) ==
    LET degrees == FTrunc(FAbs(x))
        frac    == FMulInt(FSub(FAbs(x), FFromInt(degrees)), 60)
        minutes == FTrunc(frac)
        seconds == FMulInt(FSub(frac, FFromInt(minutes)), 60)
    IN  << Rat(degrees, 1), Rat(minutes, 1),
           Rat(FTrunc(FMulInt(seconds, 100)), 100) >>


(***************************************************************************)
(* State                                                                   *)
(***************************************************************************)
VARIABLES
    gps_in,      \* the GPS IFD the image file was created with
    gps_ifd,     \* the GPS IFD of the image file: a dict tag name -> value
    coords,      \* what the last extract_gps_coordinates returned
    dms_ret,     \* what its two _dms_to_decimal calls returned (lat, lon)
    gps_op,      \* the last GPSHandler operation
    gps_writes,  \* number of set_gps_coordinates calls so far
    gps_set,     \* the arguments and the result of the last set_gps_coordinates
    geo_query,   \* reverse_geocode: the arguments, as decimal literals with
                 \* four decimals, in units of 1/10000 degree
    geo_dists,   \* the values of distance, one per loop iteration
    geo_closest, \* closest_distance after the loop
    geo_ret,     \* the string returned
    geo_pc,      \* "call" before, "return" after the call
    tags_hierarchy, \* TaggingSystem: category -> tag -> count
    image_tags,  \* image path -> list of tags
    tag_history, \* list of history entries
    tags_db,     \* the JSON file at tags_db_path
    tag_call,    \* the last TaggingSystem call and how it ended
    img,         \* viewer: the content of the image file current_file
    bak,         \* the content of the backup file next to it
    view_pre,    \* the image file when the last handler was entered
    view_log,    \* the MetadataEditor/PrivacyHandler calls the handler made
    view_op,     \* the last handler and how it ended
    ed_file,     \* direct calls: the image file the call works on
    ed_pre,      \* the image file before the last call
    ed_call,     \* the last MetadataEditor/PrivacyHandler call and its result
    crypt,       \* encrypt_metadata / decrypt_metadata: arguments and results
    parser,      \* MetadataParser: the file read, the call and its result
    export,      \* export_metadata_to_file: arguments, file written and result
    groups,      \* group_images_by_location: arguments and the dict returned
    edit_hist    \* the edits made through edit_metadata: how many, and the
                 \* content of the image file before the first of them

gpsVars == <<gps_in, gps_ifd, coords, dms_ret, gps_op, gps_writes, gps_set>>
geoVars == <<geo_query, geo_dists, geo_closest, geo_ret, geo_pc>>
tagVars == <<tags_hierarchy, image_tags, tag_history, tags_db, tag_call>>
viewVars == <<img, bak, view_pre, view_log, view_op>>
edVars == <<ed_file, ed_pre, ed_call>>
vars == <<gpsVars, geoVars, tagVars, viewVars, edVars, crypt, parser, export, groups, edit_hist>>

(***************************************************************************)
(* Bounds of the GPS inputs                                                *)
(***************************************************************************)
MaxDeg == 2          \* degrees of the DMS grid: 0..MaxDeg ...
HighDeg == 179       \* ... and one large value
MaxMin == 59         \* minutes of the DMS grid: 0..59
MaxSec100 == 5999    \* seconds of the DMS grid, in hundredths: 0..5999
SecStep == 2000      \* the grid takes every SecStep-th hundredth ...
SecNear == 1         \* ... and the SecNear hundredths next to both ends
MaxNum == 2          \* numerators of the general rationals: 0..MaxNum
MaxDen == 2          \* denominators of the general rationals: 0..MaxDen
MaxWrites == 1       \* set_gps_coordinates calls in one behaviour

DegSet == 0..MaxDeg \cup {HighDeg}
MinSet == 0..MaxMin
SecSet == { s \in 0..MaxSec100 :
              s % SecStep = 0 \/ s <= SecNear \/ s >= MaxSec100 - SecNear }

\* DMS values as a camera writes them: d/1, m/1, s/100
DmsGrid ==
    { << Rat(d, 1), Rat(m, 1), Rat(s, 100) >> :
        d \in DegSet, m \in MinSet, s \in SecSet }

\* any three unsigned rationals, zero denominators included
RatSet == { Rat(n, d) : n \in 0..MaxNum, d \in 0..MaxDen }
DmsGeneral == { << a, b, c >> : a \in RatSet, b \in RatSet, c \in RatSet }

\* values that are not three rationals
DmsMalformed == { <<>>, << Rat(1, 1) >>, << Rat(1, 1), Rat(2, 1) >> }

DmsFew ==
    { << Rat(0, 1), Rat(0, 1), Rat(0, 100) >>,
      << Rat(1, 1), Rat(30, 1), Rat(1500, 100) >>,
      << Rat(2, 1), Rat(1, 1), Rat(0, 100) >> }

DmsLon == << Rat(77, 1), Rat(6, 1), Rat(900, 100) >>

\* reference values: b'', b'N', b'S', b'E', b'W', b's'
RefSet == { <<>>, <<ByteN>>, <<ByteS>>, <<ByteE>>, <<ByteW>>, <<115>> }

\* the dict with the given entries; an entry whose present flag is FALSE is
\* left out
GpsIfd(hasLat, lat, hasLatRef, latRef, hasLon, lon, hasLonRef, lonRef) ==
    LET keys == (IF hasLat THEN {"GPSLatitude"} ELSE {})
                \cup (IF hasLatRef THEN {"GPSLatitudeRef"} ELSE {})
                \cup (IF hasLon THEN {"GPSLongitude"} ELSE {})
                \cup (IF hasLonRef THEN {"GPSLongitudeRef"} ELSE {})
    IN  [ k \in keys |->
            IF k = "GPSLatitude" THEN lat
            ELSE IF k = "GPSLatitudeRef" THEN latRef
            ELSE IF k = "GPSLongitude" THEN lon
            ELSE lonRef ]

EmptyIfd == [ k \in {} |-> <<>> ]

\* the GPS IFDs an image file may arrive with
GpsInputs ==
    { GpsIfd(TRUE, lat, TRUE, <<ByteN>>, TRUE, DmsLon, TRUE, <<ByteE>>) :
        lat \in DmsGrid \cup DmsGeneral \cup DmsMalformed }
    \cup
    { GpsIfd(TRUE, lat, hasLatRef, latRef, TRUE, lon, hasLonRef, lonRef) :
        lat \in DmsFew, lon \in DmsFew,
        hasLatRef \in BOOLEAN, latRef \in RefSet,
        hasLonRef \in BOOLEAN, lonRef \in RefSet }
    \cup
    { GpsIfd(hasLat, DmsLon, TRUE, <<ByteS>>, hasLon, DmsLon, TRUE, <<ByteW>>) :
        hasLat \in BOOLEAN, hasLon \in BOOLEAN }
    \cup { EmptyIfd }

(***************************************************************************)
(* GPSHandler.extract_gps_coordinates                                      *)
(***************************************************************************)
NoCoords == [ok |-> FALSE, lat |-> FZero, lon |-> FZero]
Coords(lat, lon) == [ok |-> TRUE, lat |-> lat, lon |-> lon]
NoDms == <<FZero, FZero>>

Has(d, k) == k \in DOMAIN d

\* truth value of d.get(k): a missing entry (None), an empty tuple and an
\* empty bytes object are all false
Truthy(d, k) == Has(d, k) /\ d[k] # <<>>

\* lat_ref and lat_ref[0] == b'S'
RefIs(d, k, byte) ==
    Truthy(d, k) /\ PyEq(BytesIndex(d[k], 0), PyBytes(<<byte>>))

\* the values of lat and lon before the references are applied
ExtractDms(ifd) ==
    << DmsToDecimal(ifd["GPSLatitude"]), DmsToDecimal(ifd["GPSLongitude"]) >>

ExtractCoords(ifd, loads) ==
    IF ~loads THEN NoCoords                       \* piexif.load raised
    ELSE IF DOMAIN ifd = {} THEN NoCoords         \* not gps_ifd
    ELSE IF ~(Truthy(ifd, "GPSLatitude") /\ Truthy(ifd, "GPSLongitude"))
         THEN NoCoords
    ELSE LET d   == ExtractDms(ifd)
             lat == IF RefIs(ifd, "GPSLatitudeRef", ByteS)
                    THEN FNeg(d[1]) ELSE d[1]
             lon == IF RefIs(ifd, "GPSLongitudeRef", ByteW)
                    THEN FNeg(d[2]) ELSE d[2]
         IN  Coords(lat, lon)

ExtractGpsCoordinates ==
    /\ \E loads \in BOOLEAN :
         /\ coords' = ExtractCoords(gps_ifd, loads)
         /\ dms_ret' = IF coords'.ok THEN ExtractDms(gps_ifd) ELSE NoDms
    /\ gps_op' = "extract"
    /\ UNCHANGED <<gps_in, gps_ifd, gps_writes, gps_set>>

(***************************************************************************)
(* GPSHandler.set_gps_coordinates                                          *)
(***************************************************************************)
\* the altitude argument: None, or a float
NoAltitude == [given |-> FALSE, value |-> FZero]
Altitude(x) == [given |-> TRUE, value |-> x]

\* the IFD when GPSAltitude is assigned whether or not an altitude is given
SetGpsIfd_AlwaysAltitude(ifd, latitude, longitude, altitude) ==
    LET keys == DOMAIN ifd \cup {"GPSLatitude", "GPSLatitudeRef",
                                 "GPSLongitude", "GPSLongitudeRef", "GPSAltitude"}
    IN  [ k \in keys |->
            IF k = "GPSAltitude"
            THEN Rat(FTrunc(FMulInt(altitude.value, 100)), 100)
            ELSE IF k = "GPSLatitude" THEN DecimalToDms(latitude)
            ELSE IF k = "GPSLatitudeRef"
                 THEN (IF FLt(latitude, FZero) THEN <<ByteS>> ELSE <<ByteN>>)
            ELSE IF k = "GPSLongitude" THEN DecimalToDms(longitude)
            ELSE IF k = "GPSLongitudeRef"
                 THEN (IF FLt(longitude, FZero) THEN <<ByteW>> ELSE <<ByteE>>)
            ELSE ifd[k] ]

\* the IFD after the assignments of lines 187-208
SetGpsIfd(ifd, latitude, longitude, altitude) ==
    LET keys == DOMAIN ifd \cup {"GPSLatitude", "GPSLatitudeRef",
                                 "GPSLongitude", "GPSLongitudeRef"}
                \cup (IF altitude.given THEN {"GPSAltitude"} ELSE {})
    IN  [ k \in keys |->
            IF k = "GPSAltitude" /\ altitude.given
            THEN Rat(FTrunc(FMulInt(altitude.value, 100)), 100)
            ELSE IF k = "GPSLatitude" THEN DecimalToDms(latitude)
            ELSE IF k = "GPSLatitudeRef"
                 THEN (IF FLt(latitude, FZero) THEN <<ByteS>> ELSE <<ByteN>>)
            ELSE IF k = "GPSLongitude" THEN DecimalToDms(longitude)
            ELSE IF k = "GPSLongitudeRef"
                 THEN (IF FLt(longitude, FZero) THEN <<ByteW>> ELSE <<ByteE>>)
            ELSE ifd[k] ]

NoSetCall ==
    [called |-> FALSE, latitude |-> FZero, longitude |-> FZero,
     altitude |-> NoAltitude, ret |-> FALSE]
SetCall(latitude, longitude, altitude, ret) ==
    [called |-> TRUE, latitude |-> latitude, longitude |-> longitude,
     altitude |-> altitude, ret |-> ret]

\* writes back the coordinates that were just extracted; when load, dump or
\* save raises the file keeps its content
SetGpsCoordinates ==
    /\ gps_op = "extract"
    /\ coords.ok
    /\ gps_writes < MaxWrites
    /\ \E saves \in BOOLEAN :
         /\ gps_ifd' = IF saves
                       THEN SetGpsIfd(gps_ifd, coords.lat, coords.lon, NoAltitude)
                       ELSE gps_ifd
         /\ gps_op' = IF saves THEN "set" ELSE "set_failed"
         /\ gps_set' = SetCall(coords.lat, coords.lon, NoAltitude, saves)
    /\ gps_writes' = gps_writes + 1
    /\ UNCHANGED <<gps_in, coords, dms_ret>>

\* the largest float below 1
BelowOne ==
    FSub(FFromInt(1),
         FDivInt(FDivInt(FDivInt(FDivInt(FDivInt(FFromInt(1), 8192), 8192),
                                 8192), 8192), 2))

\* latitudes, longitudes and altitudes passed to set_gps_coordinates:
\* decimal literals in units of 1/10000, and the float next to 1
SetLatitudes ==
    { FDec4(n) : n \in {0, 1, 15000, -15000, 10167, -286139, 900000} }
    \cup { BelowOne }
SetLongitudes == { FDec4(n) : n \in {0, 772090, -1800000} }
SetAltitudes == { NoAltitude, Altitude(FDec4(0)), Altitude(FDec4(123456)) }

\* set_gps_coordinates(file_path, latitude, longitude, altitude): when load,
\* dump or save raises the file keeps its content and False is returned
SetGpsCoordinatesTo ==
    /\ gps_writes < MaxWrites
    /\ \E latitude \in SetLatitudes, longitude \in SetLongitudes,
          altitude \in SetAltitudes, saves \in BOOLEAN :
         /\ gps_ifd' = IF saves
                       THEN SetGpsIfd(gps_ifd, latitude, longitude, altitude)
                       ELSE gps_ifd
         /\ gps_op' = IF saves THEN "set_to" ELSE "set_failed"
         /\ gps_set' = SetCall(latitude, longitude, altitude, saves)
    /\ gps_writes' = gps_writes + 1
    /\ UNCHANGED <<gps_in, coords, dms_ret>>

\* the state of the parts that a specification leaves alone
GpsIdle ==
    /\ gps_in = EmptyIfd /\ gps_ifd = EmptyIfd
    /\ coords = NoCoords /\ dms_ret = NoDms
    /\ gps_op = "init" /\ gps_writes = 0 /\ gps_set = NoSetCall

GpsInit ==
    /\ gps_in \in GpsInputs
    /\ gps_ifd = gps_in
    /\ coords = NoCoords
    /\ dms_ret = NoDms
    /\ gps_op = "init"
    /\ gps_writes = 0
    /\ gps_set = NoSetCall

\* files that set_gps_coordinates is called on: without a GPS IFD, with
\* coordinates, and with coordinates and an altitude
AltitudeIfd ==
    [ k \in {"GPSLatitude", "GPSLatitudeRef", "GPSLongitude",
             "GPSLongitudeRef", "GPSAltitude"} |->
        IF k = "GPSLatitude" THEN DmsLon
        ELSE IF k = "GPSLatitudeRef" THEN <<ByteN>>
        ELSE IF k = "GPSLongitude" THEN DmsLon
        ELSE IF k = "GPSLongitudeRef" THEN <<ByteE>>
        ELSE Rat(700, 100) ]
GpsSetInit ==
    /\ gps_in \in { EmptyIfd, AltitudeIfd,
                    GpsIfd(TRUE, DmsLon, TRUE, <<ByteS>>, TRUE, DmsLon, TRUE, <<ByteW>>) }
    /\ gps_ifd = gps_in
    /\ coords = NoCoords
    /\ dms_ret = NoDms
    /\ gps_op = "init"
    /\ gps_writes = 0
    /\ gps_set = NoSetCall

GpsSetNext ==
    \/ ExtractGpsCoordinates /\ UNCHANGED <<geoVars, tagVars, viewVars, edVars, crypt, parser, export, groups, edit_hist>>
    \/ SetGpsCoordinatesTo /\ UNCHANGED <<geoVars, tagVars, viewVars, edVars, crypt, parser, export, groups, edit_hist>>

GpsNext ==
    \/ ExtractGpsCoordinates /\ UNCHANGED <<geoVars, tagVars, viewVars, edVars, crypt, parser, export, groups, edit_hist>>
    \/ SetGpsCoordinates /\ UNCHANGED <<geoVars, tagVars, viewVars, edVars, crypt, parser, export, groups, edit_hist>>

(***************************************************************************)
(* GPSHandler.reverse_geocode                                              *)
(***************************************************************************)
\* the table in source order: latitude and longitude in units of 1/10000
\* degree (every key has at most four decimals) and the name
LOCATION_DB ==
    << <<287041, 771025, "New Delhi, Delhi, India">>,
       <<190760, 728777, "Mumbai, Maharashtra, India">>,
       <<130827, 802707, "Chennai, Tamil Nadu, India">>,
       <<225726, 883639, "Kolkata, West Bengal, India">>,
       <<307333, 767597, "Chandigarh, India">>,
       <<231815, 799864, "Indore, Madhya Pradesh, India">>,
       <<211458, 790882, "Nagpur, Maharashtra, India">>,
       <<185204, 738567, "Pune, Maharashtra, India">>,
       <<252048, 758362, "Bhopal, Madhya Pradesh, India">>,
       <<129716, 775946, "Bangalore, Karnataka, India">>,
       <<173850, 784867, "Hyderabad, Telangana, India">>,
       <<301337, 775803, "Ghaziabad, Uttar Pradesh, India">>,
       <<303011, 777099, "Noida, Uttar Pradesh, India">>,
       <<290588, 777064, "Agra, Uttar Pradesh, India">>,
       <<284089, 773178, "Faridabad, Haryana, India">>,
       <<269124, 757873, "Jaipur, Rajasthan, India">>,
       <<261667, 915000, "Assam, India">>,
       <<255920, 851206, "Patna, Bihar, India">>,
       <<248008, 849753, "Varanasi, Uttar Pradesh, India">>,
       <<269229, 809450, "Lucknow, Uttar Pradesh, India">>,
       <<341526, 775770, "Leh, Ladakh, India">>,
       <<322290, 753762, "Shimla, Himachal Pradesh, India">>,
       <<152993, 748361, "Panaji, Goa, India">>,
       <<139124, 756239, "Mangalore, Karnataka, India">>,
       <<109176, 798369, "Thiruvananthapuram, Kerala, India">>,
       <<99312, 762673, "Kochi, Kerala, India">>,
       <<87305, 777597, "Nagercoil, Tamil Nadu, India">>,
       <<133673, 798965, "Tirupati, Andhra Pradesh, India">>,
       <<202961, 858245, "Bhubaneswar, Odisha, India">>,
       <<211458, 868319, "Rourkela, Odisha, India">>,
       <<236345, 852988, "Ranchi, Jharkhand, India">>,
       <<248407, 939133, "Imphal, Manipur, India">>,
       <<255941, 946337, "Aizawl, Mizoram, India">>,
       <<261445, 942082, "Kohima, Nagaland, India">>,
       <<265644, 883630, "Gangtok, Sikkim, India">>,
       <<282096, 943560, "Itanagar, Arunachal Pradesh, India">>,
       <<231815, 726311, "Ahmedabad, Gujarat, India">>,
       <<215922, 711925, "Vadodara, Gujarat, India">>,
       <<223088, 731924, "Daman, Gujarat, India">>,
       <<202740, 737591, "Aurangabad, Maharashtra, India">>,
       <<227039, 758573, "Bina, Madhya Pradesh, India">>,
       <<234729, 870479, "Gaya, Bihar, India">>,
       <<407128, -740060, "New York, USA">>,
       <<515074, -1278, "London, UK">>,
       <<488566, 23522, "Paris, France">>,
       <<356762, 1396503, "Tokyo, Japan">>,
       <<377749, -1224194, "San Francisco, USA">>,
       <<340522, -1182437, "Los Angeles, USA">>,
       <<418781, -876298, "Chicago, USA">>,
       <<397392, -1049903, "Denver, USA">>,
       <<476062, -1223321, "Seattle, USA">>,
       <<557558, 376173, "Moscow, Russia">>,
       <<-338688, 1512093, "Sydney, Australia">>,
       <<13521, 1038198, "Singapore">>,
       <<223193, 1141694, "Hong Kong">> >>

DbSize == Len(LOCATION_DB)

\* the keys as the floats the literals denote
DbKeys ==
    [ i \in 1..DbSize |->
        [lat |-> FDec4(LOCATION_DB[i][1]), lon |-> FDec4(LOCATION_DB[i][2])] ]

\* ((latitude - db_lat) ** 2 + (longitude - db_lon) ** 2) ** 0.5, with the
\* latitude taken against the longitude of the entry
Distance_Swapped(latitude, longitude, key) ==
    LET dlat == FSub(latitude, key.lon)
        dlon == FSub(longitude, key.lon)
    IN  FSqrt(FAdd(FMul(dlat, dlat), FMul(dlon, dlon)))

\* ((latitude - db_lat) ** 2 + (longitude - db_lon) ** 2) ** 0.5
Distance(latitude, longitude, key) ==
    LET dlat == FSub(latitude, key.lat)
        dlon == FSub(longitude, key.lon)
    IN  FSqrt(FAdd(FMul(dlat, dlat), FMul(dlon, dlon)))

\* the loop variables before the first iteration; closest_distance is
\* float('inf')
GeoLoopStart ==
    [closest_location |-> "Unknown Location", inf |-> TRUE,
     closest_distance |-> FZero, dists |-> <<>>]

\* one iteration that also takes an entry at the same distance
GeoLoopBody_LastOnTie(st, latitude, longitude, i) ==
    LET distance == CHOOSE d \in { Distance(latitude, longitude, DbKeys[i]) } : TRUE
    IN  IF st.inf \/ ~FLt(st.closest_distance, distance)
        THEN [closest_location |-> LOCATION_DB[i][3], inf |-> FALSE,
              closest_distance |-> distance,
              dists |-> Append(st.dists, distance)]
        ELSE [st EXCEPT !.dists = Append(st.dists, distance)]

\* one iteration of the loop, for entry i
GeoLoopBody(st, latitude, longitude, i) ==
    LET distance == CHOOSE d \in { Distance(latitude, longitude, DbKeys[i]) } : TRUE
    IN  IF st.inf \/ FLt(distance, st.closest_distance)
        THEN [closest_location |-> LOCATION_DB[i][3], inf |-> FALSE,
              closest_distance |-> distance,
              dists |-> Append(st.dists, distance)]
        ELSE [st EXCEPT !.dists = Append(st.dists, distance)]

\* the iterations for entries i..j; the first half is computed to a value
\* before the second half starts
RECURSIVE GeoLoop(_, _, _, _, _)
GeoLoop(st, latitude, longitude, i, j) ==
    IF i > j THEN st
    ELSE IF i = j THEN GeoLoopBody(st, latitude, longitude, i)
    ELSE LET mid == (i + j) \div 2
         IN  CHOOSE r \in { GeoLoop(h, latitude, longitude, mid + 1, j) :
                              h \in { GeoLoop(st, latitude, longitude, i, mid) } } :
                    TRUE

GeoThreshold == 8

\* the returned string: a location name, or "Coordinates: <lat>, <lon>" with
\* both numbers formatted with four decimals and a degree sign
GeoName(name) ==
    [kind |-> "name", name |-> name,
     lat |-> FFormat4(FZero), lon |-> FFormat4(FZero)]
GeoFallback(latitude, longitude) ==
    [kind |-> "coordinates", name |-> "",
     lat |-> FFormat4(latitude), lon |-> FFormat4(longitude)]

\* the return statement with a threshold of 10 degrees
GeoReturn_Threshold10(st, latitude, longitude) ==
    IF ~st.inf /\ FLt(st.closest_distance, FFromInt(10))
    THEN GeoName(st.closest_location)
    ELSE GeoFallback(latitude, longitude)

GeoReturn(st, latitude, longitude) ==
    IF ~st.inf /\ FLt(st.closest_distance, FFromInt(GeoThreshold))
    THEN GeoName(st.closest_location)
    ELSE GeoFallback(latitude, longitude)

ReverseGeocode ==
    /\ geo_pc = "call"
    /\ \E latitude \in { FDec4(geo_query[1]) }, longitude \in { FDec4(geo_query[2]) } :
         \E st \in { GeoLoop(GeoLoopStart, latitude, longitude, 1, DbSize) } :
            /\ geo_dists' = st.dists
            /\ geo_closest' = [inf |-> st.inf, distance |-> st.closest_distance]
            /\ geo_ret' = GeoReturn(st, latitude, longitude)
    /\ geo_pc' = "return"
    /\ UNCHANGED geo_query

\* the queries: every key of the table, points at and next to the threshold
\* around the entries from FirstIsolated on, and a grid over the globe
FirstIsolated == 52
GridLatStep == 400000
GridLonStep == 800000
GeoOffsets == { <<80000, 0>>, <<79999, 0>>, <<0, -80000>>, <<90000, 0>>, <<1, 0>> }
\* points half way between two entries that are both the closest ones
TieQueries ==
    { <<203341, 720351>>, <<302174, 776451>>, <<368957, -1116170>>,
      <<9037, 1454298>> }
GeoQueries ==
    { << LOCATION_DB[i][1], LOCATION_DB[i][2] >> : i \in 1..DbSize }
    \cup TieQueries
    \cup { << LOCATION_DB[i][1] + o[1], LOCATION_DB[i][2] + o[2] >> :
             i \in FirstIsolated..DbSize, o \in GeoOffsets }
    \cup { << a * GridLatStep, b * GridLonStep >> :
             a \in -2..2, b \in -2..2 }

NoClosest == [inf |-> TRUE, distance |-> FZero]

GeoIdle ==
    /\ geo_query = <<0, 0>> /\ geo_dists = <<>>
    /\ geo_closest = NoClosest /\ geo_ret = GeoName("")
    /\ geo_pc = "idle"

GeoInit ==
    /\ geo_query \in GeoQueries
    /\ geo_dists = <<>>
    /\ geo_closest = NoClosest
    /\ geo_ret = GeoName("")
    /\ geo_pc = "call"

GeoNext == ReverseGeocode /\ UNCHANGED <<gpsVars, tagVars, viewVars, edVars, crypt, parser, export, groups, edit_hist>>

(* TaggingSystem                                                           *)
(***************************************************************************)
Images == {"a.jpg", "b.jpg"}
Tags == {"sea", "Sun"}
Categories == {"General", "Places"}
MaxCount == 2        \* the counts of the hierarchy stay within 0..MaxCount
MaxHistory == 1      \* history entries in the stores the model starts from

Range(f) == { f[x] : x \in DOMAIN f }
EmptyDict == [ k \in {} |-> <<>> ]

\* the lists over Tags without a repeated tag
NoDupLists ==
    { <<>> } \cup { <<t>> : t \in Tags }
    \cup { l \in { <<t, u>> : t \in Tags, u \in Tags } : l[1] # l[2] }

HistoryEntry(action, image, tag) ==
    [action |-> action, image |-> image, tag |-> tag]

\* the content of a tags.json file
Store(hierarchy, images, history) ==
    [hierarchy |-> hierarchy, image_tags |-> images, history |-> history]

NoFile == [exists |-> FALSE, data |-> Store(EmptyDict, EmptyDict, <<>>)]
File(data) == [exists |-> TRUE, data |-> data]

\* the hierarchies and image maps of the files that import_tags_from_json
\* reads
ImportHierarchies ==
    { [ c \in {"General"} |-> [ t \in {"sea"} |-> 0 ] ],
      [ c \in {"General"} |-> [ t \in Tags |-> 0 ] ] }
ImportImageTags ==
    { [ i \in Images |-> IF i = "a.jpg" THEN <<"sea">> ELSE <<>> ],
      [ i \in Images |-> IF i = "a.jpg" THEN <<"Sun", "sea">> ELSE <<"sea">> ] }

\* hierarchies, image maps and histories of the stores the model starts from
SomeHierarchies == { EmptyDict } \cup ImportHierarchies
SomeImageTags ==
    { EmptyDict, [ i \in {"b.jpg"} |-> <<"Sun">> ] } \cup ImportImageTags
SomeHistories ==
    { h \in { <<>>, << HistoryEntry("add_tag", "a.jpg", "sea") >>,
              << HistoryEntry("add_tag", "a.jpg", "sea"),
                 HistoryEntry("remove_tag", "a.jpg", "sea") >> } :
        Len(h) <= MaxHistory }

\* save_tags_db keeps the last 1000 history entries
HistoryKept == 1000

\* a history of a store that holds more entries than save_tags_db keeps
LongHistory ==
    [ i \in 1..(HistoryKept + MaxHistory) |->
        HistoryEntry(IF i % 2 = 1 THEN "add_tag" ELSE "remove_tag",
                     IF i % 3 = 1 THEN "a.jpg" ELSE "b.jpg", "sea") ]
LastEntries(h, n) == IF Len(h) <= n THEN h ELSE SubSeq(h, Len(h) - n + 1, Len(h))

\* save_tags_db that writes the whole history
SaveTagsDb_WholeHistory(hierarchy, images, history, file, writes) ==
    IF writes THEN File(Store(hierarchy, images, history)) ELSE file

\* save_tags_db: the file after the call; an exception (the file cannot be
\* opened) is caught and leaves the file as it was
SaveTagsDb(hierarchy, images, history, file, writes) ==
    IF writes
    THEN File(Store(hierarchy, images, LastEntries(history, HistoryKept)))
    ELSE file

\* load_tags_db on a freshly constructed object: the three attributes
LoadTagsDb(file) ==
    IF file.exists THEN file.data ELSE Store(EmptyDict, EmptyDict, <<>>)

\* a call, how it ended ("returned" or "raised") and the value it returned
Call(op, image, tag, outcome, result) ==
    [op |-> op, image |-> image, tag |-> tag, outcome |-> outcome,
     result |-> IF outcome = "raised" THEN "" ELSE result]

\* str(Path.ctime(Path.cwd())): pathlib.Path has no attribute ctime, so the
\* expression raises AttributeError whenever it is evaluated
CtimeRaises == TRUE

\* add_tag: creates the category, then the dict literal raises before the
\* tag is stored and before save_tags_db
AddTag ==
    \E tag \in Tags, category \in Categories :
        /\ tags_hierarchy' =
              IF category \in DOMAIN tags_hierarchy THEN tags_hierarchy
              ELSE [ c \in DOMAIN tags_hierarchy \cup {category} |->
                       IF c = category THEN EmptyDict ELSE tags_hierarchy[c] ]
        /\ tag_call' = Call("add_tag", "", tag,
                            IF CtimeRaises THEN "raised" ELSE "returned", "None")
        /\ UNCHANGED <<image_tags, tag_history, tags_db>>

\* image_tags after lines 65-69 for a tag that is not in the list, with the
\* membership test left out
AddToList_NoTest(images, image_key, tag) ==
    [ i \in DOMAIN images \cup {image_key} |->
        IF i # image_key THEN images[i]
        ELSE IF i \in DOMAIN images THEN Append(images[i], tag)
        ELSE <<tag>> ]

\* image_tags after lines 65-69
AddToList(images, image_key, tag) ==
    [ i \in DOMAIN images \cup {image_key} |->
        IF i # image_key THEN images[i]
        ELSE IF i \notin DOMAIN images THEN <<tag>>
        ELSE IF tag \in Range(images[i]) THEN images[i]
        ELSE Append(images[i], tag) ]

\* _update_tag_count
UpdateTagCount(hierarchy, tag) ==
    [ c \in DOMAIN hierarchy |->
        [ t \in DOMAIN hierarchy[c] |->
            IF t = tag THEN hierarchy[c][t] + 1 ELSE hierarchy[c][t] ] ]

CountOf(hierarchy, tag) ==
    IF \E c \in DOMAIN hierarchy : tag \in DOMAIN hierarchy[c]
    THEN LET c == CHOOSE c \in DOMAIN hierarchy : tag \in DOMAIN hierarchy[c]
         IN  hierarchy[c][tag]
    ELSE 0

\* add_tag_to_image: for a new tag the list and the count are updated, then
\* the history entry's dict literal raises before tag_history.append and
\* before save_tags_db
AddTagToImage ==
    \E image \in Images, tag \in Tags :
        LET present == image \in DOMAIN image_tags
                       /\ tag \in Range(image_tags[image])
        IN  /\ present \/ CountOf(tags_hierarchy, tag) < MaxCount
            /\ image_tags' = AddToList(image_tags, image, tag)
            /\ tags_hierarchy' = IF present THEN tags_hierarchy
                                 ELSE UpdateTagCount(tags_hierarchy, tag)
            /\ tag_call' = Call("add_tag_to_image", image, tag,
                                IF ~present /\ CtimeRaises THEN "raised"
                                ELSE "returned", "None")
            /\ UNCHANGED <<tag_history, tags_db>>

\* list.remove(x): drops the first x
RECURSIVE RemoveFirst(_, _)
RemoveFirst(l, x) ==
    IF l = <<>> THEN <<>>
    ELSE IF Head(l) = x THEN Tail(l)
    ELSE <<Head(l)>> \o RemoveFirst(Tail(l), x)

\* image_tags after remove_tag_from_image, with the entry created as
\* add_tag_to_image does
RemoveFromList_CreatesEntry(images, image_key, tag) ==
    [ i \in DOMAIN images \cup {image_key} |->
        IF i \notin DOMAIN images THEN <<>>
        ELSE IF i = image_key /\ tag \in Range(images[i])
             THEN RemoveFirst(images[i], tag)
        ELSE images[i] ]

\* image_tags after lines 83-84
RemoveFromList(images, image_key, tag) ==
    IF image_key \in DOMAIN images /\ tag \in Range(images[image_key])
    THEN [images EXCEPT ![image_key] = RemoveFirst(images[image_key], tag)]
    ELSE images

\* remove_tag_from_image: for a tag in the list the tag is removed, then the
\* history entry's dict literal raises before tag_history.append and before
\* save_tags_db
RemoveTagFromImage ==
    \E image \in Images, tag \in Tags :
        LET present == image \in DOMAIN image_tags
                       /\ tag \in Range(image_tags[image])
        IN  /\ image_tags' = RemoveFromList(image_tags, image, tag)
            /\ tag_call' = Call("remove_tag_from_image", image, tag,
                                IF present /\ CtimeRaises THEN "raised"
                                ELSE "returned", "None")
            /\ UNCHANGED <<tags_hierarchy, tag_history, tags_db>>

\* dict.update
DictUpdate(d, u) ==
    [ k \in DOMAIN d \cup DOMAIN u |-> IF k \in DOMAIN u THEN u[k] ELSE d[k] ]

\* import_tags_from_json: a file that cannot be read leaves everything as it
\* was and the call returns False; otherwise both dicts are updated and
\* save_tags_db runs
ImportTagsFromJson ==
    \E reads \in BOOLEAN, writes \in BOOLEAN,
       h \in ImportHierarchies, m \in ImportImageTags :
        IF reads
        THEN /\ tags_hierarchy' = DictUpdate(tags_hierarchy, h)
             /\ image_tags' = DictUpdate(image_tags, m)
             /\ tags_db' = SaveTagsDb(tags_hierarchy', image_tags',
                                      tag_history, tags_db, writes)
             /\ tag_call' = Call("import_tags_from_json", "", "", "returned",
                                 "True")
             /\ UNCHANGED tag_history
        ELSE /\ tag_call' = Call("import_tags_from_json", "", "", "returned",
                                 "False")
             /\ UNCHANGED <<tags_hierarchy, image_tags, tag_history, tags_db>>

\* str.lower() for ASCII letters
Lower(c) == IF c \in 65..90 THEN c + 32 ELSE c
LowerStr(str) == [ i \in 1..Len(str) |-> Lower(str[i]) ]

\* the characters of the tags and the partial tags asked for
TagChars == "sea" :> <<115, 101, 97>> @@ "Sun" :> <<83, 117, 110>>
PartialTags == { <<>>, <<115>>, <<83>>, <<85, 78>>, <<83, 69, 65>>, <<120>> }

\* x in y for two str
Contains(y, x) ==
    \E i \in 0..(Len(y) - Len(x)) : SubSeq(y, i + 1, i + Len(x)) = x

\* lines 100-105: the tags of the hierarchy that contain the partial tag,
\* one for every category that holds the tag
Matching(hierarchy, partial_tag) ==
    { ct \in { <<c, t>> : c \in DOMAIN hierarchy, t \in Tags } :
        /\ ct[2] \in DOMAIN hierarchy[ct[1]]
        /\ Contains(LowerStr(TagChars[ct[2]]), LowerStr(partial_tag)) }

SuggestionLimit == 10
Take(l, n) == IF Len(l) <= n THEN l ELSE SubSeq(l, 1, n)

\* the lists that the stable sort by descending count can give: the
\* matching tags in an order of the dicts, those of greater count first
Sorted(hierarchy, partial_tag) ==
    LET match == Matching(hierarchy, partial_tag)
    IN  { [ i \in 1..Len(l) |-> l[i][2] ] :
            l \in { l \in [1..Cardinality(match) -> match] :
                      /\ \A i, j \in DOMAIN l : l[i] = l[j] => i = j
                      /\ \A i, j \in DOMAIN l :
                            i < j => CountOf(hierarchy, l[i][2])
                                       >= CountOf(hierarchy, l[j][2]) } }

Suggested(partial_tag, suggestions) ==
    [op |-> "get_tag_suggestions", image |-> "", tag |-> "",
     outcome |-> "returned", result |-> "list",
     partial_tag |-> partial_tag, suggestions |-> suggestions]

\* get_tag_suggestions
GetTagSuggestions ==
    \E partial_tag \in PartialTags :
        \E l \in Sorted(tags_hierarchy, partial_tag) :
            /\ tag_call' = Suggested(partial_tag, Take(l, SuggestionLimit))
            /\ UNCHANGED <<tags_hierarchy, image_tags, tag_history, tags_db>>

\* TaggingSystem(tags_db_path): a new object on the same path
NewTaggingSystem ==
    /\ tags_hierarchy' = LoadTagsDb(tags_db).hierarchy
    /\ image_tags' = LoadTagsDb(tags_db).image_tags
    /\ tag_history' = LoadTagsDb(tags_db).history
    /\ tag_call' = Call("__init__", "", "", "returned", "None")
    /\ UNCHANGED tags_db

TagIdle ==
    /\ tags_hierarchy = EmptyDict /\ image_tags = EmptyDict
    /\ tag_history = <<>> /\ tags_db = NoFile
    /\ tag_call = Call("idle", "", "", "returned", "None")

\* the object after construction, on a path with no file or with a store
\* written earlier
TagInit ==
    /\ tags_db \in { NoFile }
                   \cup { File(Store(h, m, hist)) :
                            h \in SomeHierarchies, m \in SomeImageTags,
                            hist \in SomeHistories }
    /\ tags_hierarchy = LoadTagsDb(tags_db).hierarchy
    /\ image_tags = LoadTagsDb(tags_db).image_tags
    /\ tag_history = LoadTagsDb(tags_db).history
    /\ tag_call = Call("__init__", "", "", "returned", "None")

\* the object after construction on a store whose history is longer than
\* what save_tags_db keeps, as long, or shorter
HistoryInit ==
    /\ tags_db \in { File(Store(EmptyDict, EmptyDict, h)) :
                      h \in { LongHistory, Tail(LongHistory),
                              Tail(Tail(LongHistory)) } }
    /\ tags_hierarchy = LoadTagsDb(tags_db).hierarchy
    /\ image_tags = LoadTagsDb(tags_db).image_tags
    /\ tag_history = LoadTagsDb(tags_db).history
    /\ tag_call = Call("__init__", "", "", "returned", "None")

\* the calls that save the store and load it again
HistoryNext ==
    \/ ImportTagsFromJson /\ UNCHANGED <<gpsVars, geoVars, viewVars, edVars, crypt, parser, export, groups, edit_hist>>
    \/ NewTaggingSystem /\ UNCHANGED <<gpsVars, geoVars, viewVars, edVars, crypt, parser, export, groups, edit_hist>>

TagNext ==
    \/ AddTag /\ UNCHANGED <<gpsVars, geoVars, viewVars, edVars, crypt, parser, export, groups, edit_hist>>
    \/ AddTagToImage /\ UNCHANGED <<gpsVars, geoVars, viewVars, edVars, crypt, parser, export, groups, edit_hist>>
    \/ RemoveTagFromImage /\ UNCHANGED <<gpsVars, geoVars, viewVars, edVars, crypt, parser, export, groups, edit_hist>>
    \/ ImportTagsFromJson /\ UNCHANGED <<gpsVars, geoVars, viewVars, edVars, crypt, parser, export, groups, edit_hist>>
    \/ NewTaggingSystem /\ UNCHANGED <<gpsVars, geoVars, viewVars, edVars, crypt, parser, export, groups, edit_hist>>
    \/ GetTagSuggestions /\ UNCHANGED <<gpsVars, geoVars, viewVars, edVars, crypt, parser, export, groups, edit_hist>>

(***************************************************************************)
(* The viewers' handlers that modify the image file                        *)
(***************************************************************************)
\* Python values besides int and bytes: str (a sequence of code points),
\* None and list
PyStr(s) == [t |-> "str", v |-> s]
PyNone == [t |-> "None", v |-> <<>>]
PyList(l) == [t |-> "list", v |-> l]

\* str.encode('utf-8'), for code points of the basic multilingual plane
Utf8Char(c) ==
    IF c < 128 THEN <<c>>
    ELSE IF c < 2048 THEN <<192 + (c \div 64), 128 + (c % 64)>>
    ELSE <<224 + (c \div 4096), 128 + ((c \div 64) % 64), 128 + (c % 64)>>
\* the concatenation of the sequences f[lo], ..., f[hi]
RECURSIVE Concat(_, _, _)
Concat(f, lo, hi) ==
    IF lo > hi THEN <<>>
    ELSE IF lo = hi THEN f[lo]
    ELSE Concat(f, lo, (lo + hi) \div 2) \o Concat(f, (lo + hi) \div 2 + 1, hi)

Utf8Encode(s) == Concat([ i \in 1..Len(s) |-> Utf8Char(s[i]) ], 1, Len(s))

\* bytes.decode(): the code points that a sequence of UTF-8 bytes stands for
\* each byte that is not a continuation byte starts a character
Utf8Decode(b) ==
    Concat([ i \in 1..Len(b) |->
               IF b[i] < 128 THEN <<b[i]>>
               ELSE IF b[i] < 192 THEN <<>>
               ELSE IF b[i] < 224 THEN <<(b[i] - 192) * 64 + (b[i + 1] - 128)>>
               ELSE <<(b[i] - 224) * 4096 + (b[i + 1] - 128) * 64
                      + (b[i + 2] - 128)>> ],
           1, Len(b))

\* the IFDs that edit_exif_data and privacy_mode work on, and the piexif
\* class that names the tags of each
IFDs == {"0th", "Exif", "GPS", "1st"}
IfdClass ==
    "0th" :> "ImageIFD" @@ "Exif" :> "ExifIFD" @@ "GPS" :> "GPSIFD"
    @@ "1st" :> "ImageIFD"

\* a tag id is written as the source writes it, piexif.<class>.<name>; a tag
\* id that piexif.TAGS does not know has the class "unknown"
EXIF_FIELD_MAPPING ==
    "DateTime" :> <<"0th", <<"ImageIFD", "DateTime">> >> @@
    "DateTimeOriginal" :> <<"Exif", <<"ExifIFD", "DateTimeOriginal">> >> @@
    "DateTimeDigitized" :> <<"Exif", <<"ExifIFD", "DateTimeDigitized">> >> @@
    "Artist" :> <<"0th", <<"ImageIFD", "Artist">> >> @@
    "Copyright" :> <<"0th", <<"ImageIFD", "Copyright">> >> @@
    "ImageDescription" :> <<"0th", <<"ImageIFD", "ImageDescription">> >> @@
    "Software" :> <<"0th", <<"ImageIFD", "Software">> >> @@
    "Make" :> <<"0th", <<"ImageIFD", "Make">> >> @@
    "Model" :> <<"0th", <<"ImageIFD", "Model">> >> @@
    "LensModel" :> <<"Exif", <<"ExifIFD", "LensModel">> >> @@
    "ExposureTime" :> <<"Exif", <<"ExifIFD", "ExposureTime">> >> @@
    "FNumber" :> <<"Exif", <<"ExifIFD", "FNumber">> >> @@
    "ISOSpeedRatings" :> <<"Exif", <<"ExifIFD", "ISOSpeedRatings">> >> @@
    "ExposureBiasValue" :> <<"Exif", <<"ExifIFD", "ExposureBiasValue">> >> @@
    "MeteringMode" :> <<"Exif", <<"ExifIFD", "MeteringMode">> >> @@
    "Flash" :> <<"Exif", <<"ExifIFD", "Flash">> >> @@
    "WhiteBalance" :> <<"Exif", <<"ExifIFD", "WhiteBalance">> >> @@
    "FocalLength" :> <<"Exif", <<"ExifIFD", "FocalLength">> >> @@
    "FocalLengthIn35mmFilm" :> <<"Exif", <<"ExifIFD", "FocalLengthIn35mmFilm">> >> @@
    "SubjectDistance" :> <<"Exif", <<"ExifIFD", "SubjectDistance">> >> @@
    "Orientation" :> <<"0th", <<"ImageIFD", "Orientation">> >> @@
    "XResolution" :> <<"0th", <<"ImageIFD", "XResolution">> >> @@
    "YResolution" :> <<"0th", <<"ImageIFD", "YResolution">> >> @@
    "ResolutionUnit" :> <<"0th", <<"ImageIFD", "ResolutionUnit">> >> @@
    "GPSVersionID" :> <<"GPS", <<"GPSIFD", "GPSVersionID">> >> @@
    "GPSLatitude" :> <<"GPS", <<"GPSIFD", "GPSLatitude">> >> @@
    "GPSLatitudeRef" :> <<"GPS", <<"GPSIFD", "GPSLatitudeRef">> >> @@
    "GPSLongitude" :> <<"GPS", <<"GPSIFD", "GPSLongitude">> >> @@
    "GPSLongitudeRef" :> <<"GPS", <<"GPSIFD", "GPSLongitudeRef">> >> @@
    "GPSAltitude" :> <<"GPS", <<"GPSIFD", "GPSAltitude">> >> @@
    "GPSAltitudeRef" :> <<"GPS", <<"GPSIFD", "GPSAltitudeRef">> >> @@
    "GPSTimeStamp" :> <<"GPS", <<"GPSIFD", "GPSTimeStamp">> >> @@
    "GPSDateStamp" :> <<"GPS", <<"GPSIFD", "GPSDateStamp">> >> @@
    "UserComment" :> <<"Exif", <<"ExifIFD", "UserComment">> >>

\* piexif.TAGS[ifd_name][tag]["name"]: defined for the tags of the IFD's class
TagKnown(ifd_name, tag) == tag[1] = IfdClass[ifd_name]
TagName(ifd_name, tag) == tag[2]

SENSITIVE_FIELDS ==
    "GPS" :> {"GPSInfo", "GPSLatitude", "GPSLongitude", "GPSAltitude"}
    @@ "DateTime" :> {"DateTime", "DateTimeOriginal", "DateTimeDigitized"}
    @@ "Camera" :> {"Make", "Model", "LensModel"}
    @@ "Personal" :> {"Artist", "Copyright", "UserComment"}
DefaultCategories == <<"GPS", "DateTime", "Personal">>

\* an EXIF dictionary as piexif.load returns it: IFD -> tag -> value
EmptyExif == [ i \in IFDs |-> EmptyDict ]

\* a readable image file: its EXIF dictionary and its modification time
\* ("original", "saved" once PIL has rewritten it, "chosen" once
\* set_file_timestamp has set it)
Content(exif, mtime) == [ok |-> TRUE, exif |-> exif, mtime |-> mtime]
\* a file that a failed save has left truncated
Damaged == [ok |-> FALSE, exif |-> EmptyExif, mtime |-> "saved"]

NoBackup == [exists |-> FALSE, data |-> Damaged]
Backup(content) == [exists |-> TRUE, data |-> content]

Ret(file, result) == [file |-> file, result |-> result]

\* exif_dict[ifd_name][tag] = value
SetTag(exif, ifd_name, tag, value) ==
    [exif EXCEPT ![ifd_name] =
        [ t \in DOMAIN exif[ifd_name] \cup {tag} |->
            IF t = tag THEN value ELSE exif[ifd_name][t] ] ]

\* one round of the loop of edit_exif_data that stores a str as it is
ExifUpdateStep_NoEncode(exif, key, value) ==
    IF key \notin DOMAIN EXIF_FIELD_MAPPING THEN exif
    ELSE SetTag(exif, EXIF_FIELD_MAPPING[key][1], EXIF_FIELD_MAPPING[key][2],
                value)

\* one round of the loop of edit_exif_data (lines 91-113)
ExifUpdateStep(exif, key, value) ==
    IF key \notin DOMAIN EXIF_FIELD_MAPPING THEN exif
    ELSE SetTag(exif, EXIF_FIELD_MAPPING[key][1], EXIF_FIELD_MAPPING[key][2],
                IF value.t = "str" THEN PyBytes(Utf8Encode(value.v)) ELSE value)

\* the loop over exif_updates.items(), a list of <<key, value>> in dict order
RECURSIVE ApplyUpdates(_, _)
ApplyUpdates(exif, updates) ==
    IF updates = <<>> THEN exif
    ELSE ApplyUpdates(ExifUpdateStep(exif, Head(updates)[1], Head(updates)[2]),
                      Tail(updates))

\* MetadataEditor.edit_exif_data: piexif.load fails, or piexif.dump rejects
\* the dictionary, or image.save fails after opening the file for writing,
\* or the file is rewritten
EditExifData(content, updates, outcome) ==
    IF ~content.ok \/ outcome = "load_fails" THEN Ret(content, FALSE)
    ELSE IF outcome = "dump_fails" THEN Ret(content, FALSE)
    ELSE IF outcome = "save_fails" THEN Ret(Damaged, FALSE)
    ELSE Ret(Content(ApplyUpdates(content.exif, updates), "saved"), TRUE)

\* PrivacyHandler.strip_metadata: Image.open or the copy of the pixels fails,
\* or the save fails, or the image is saved without EXIF
StripMetadata(content, outcome) ==
    IF ~content.ok \/ outcome = "dump_fails" THEN Ret(content, FALSE)
    ELSE IF outcome = "save_fails" THEN Ret(Damaged, FALSE)
    ELSE Ret(Content(EmptyExif, "saved"), TRUE)

\* the deletion loop that looks at the GPS IFD only
RemoveTags_GpsIfdOnly(exif, fields_to_remove) ==
    [ i \in IFDs |->
        [ t \in { t \in DOMAIN exif[i] :
                    ~(i = "GPS" /\ TagKnown(i, t)
                      /\ TagName(i, t) \in fields_to_remove) } |->
            exif[i][t] ] ]

\* the loop over the four IFDs (lines 70-80): a tag is deleted when its name
\* is found and listed; a tag whose name lookup raises is kept
RemoveTags(exif, fields_to_remove) ==
    [ i \in IFDs |->
        [ t \in { t \in DOMAIN exif[i] :
                    ~(TagKnown(i, t) /\ TagName(i, t) \in fields_to_remove) } |->
            exif[i][t] ] ]

\* the loop over the categories (lines 66-80)
RECURSIVE RemoveCategories(_, _)
RemoveCategories(exif, categories) ==
    IF categories = <<>> THEN exif
    ELSE RemoveCategories(
             IF Head(categories) \in DOMAIN SENSITIVE_FIELDS
             THEN RemoveTags(exif, SENSITIVE_FIELDS[Head(categories)])
             ELSE exif,
             Tail(categories))

\* PrivacyHandler.privacy_mode; categories is None or a list
PrivacyMode(content, categories, outcome) ==
    LET cats == IF categories = PyNone THEN DefaultCategories ELSE categories.v
    IN  IF ~content.ok \/ outcome = "load_fails" THEN Ret(content, FALSE)
        ELSE IF "All" \in Range(cats) THEN StripMetadata(content, outcome)
        ELSE IF outcome = "dump_fails" THEN Ret(content, FALSE)
        ELSE IF outcome = "save_fails" THEN Ret(Damaged, FALSE)
        ELSE Ret(Content(RemoveCategories(content.exif, cats), "saved"), TRUE)

\* MetadataEditor.set_file_timestamp: strptime rejects the string, or
\* os.utime fails, or the times are set
SetFileTimestamp(content, datetime_str, utime_ok) ==
    IF datetime_str = "2024-01-01 00:00:00" /\ utime_ok
    THEN Ret([content EXCEPT !.mtime = "chosen"], TRUE)
    ELSE Ret(content, FALSE)

\* create_backup that leaves an existing backup file as it is
CreateBackup_KeepsExisting(content, backup, copies) ==
    IF copies
    THEN [bak |-> IF backup.exists THEN backup ELSE Backup(content),
          result |-> "path"]
    ELSE [bak |-> backup, result |-> "None"]

\* MetadataEditor.create_backup: copy2 to <stem>_backup<suffix>
CreateBackup(content, backup, copies) ==
    IF copies THEN [bak |-> Backup(content), result |-> "path"]
    ELSE [bak |-> backup, result |-> "None"]

\* restore_backup that reports success without copying
RestoreBackup_NoCopy(content, backup, copies) ==
    IF copies /\ backup.exists THEN Ret(content, TRUE)
    ELSE Ret(content, FALSE)

\* MetadataEditor.restore_backup: copy2 back
RestoreBackup(content, backup, copies) ==
    IF copies /\ backup.exists THEN Ret(backup.data, TRUE)
    ELSE Ret(content, FALSE)

Logged(call, result) == [call |-> call, result |-> result]
BoolStr(b) == IF b THEN "True" ELSE "False"

\* what a handler leaves behind
Handled(file, backup, log, outcome) ==
    [img |-> file, bak |-> backup, log |-> log, outcome |-> outcome]

\* Python truth of the string file_timestamp and of file_timestamp.strip()
Blank(str) == str \in {"", " "}

\* metadata_viewer.py edit_metadata that edits although create_backup
\* returned None
EditMetadata_IgnoresNone(f, b, selected, accepted, edited_data, copies, outcome, restores) ==
    IF ~selected \/ ~accepted THEN Handled(f, b, <<>>, "returned")
    ELSE
    LET bk == CreateBackup(f, b, copies)
        l1 == << Logged("create_backup", bk.result) >>
        ed == EditExifData(f, edited_data, outcome)
        l2 == Append(l1, Logged("edit_exif_data", BoolStr(ed.result)))
        rs == RestoreBackup(ed.file, bk.bak, restores)
    IN  IF ed.result THEN Handled(ed.file, bk.bak, l2, "returned")
        ELSE Handled(rs.file, bk.bak,
                     Append(l2, Logged("restore_backup", BoolStr(rs.result))),
                     "returned")

\* metadata_viewer.py edit_metadata
EditMetadata(f, b, selected, accepted, edited_data, copies, outcome, restores) ==
    IF ~selected \/ ~accepted THEN Handled(f, b, <<>>, "returned")
    ELSE
    LET bk == CreateBackup(f, b, copies)
        l1 == << Logged("create_backup", bk.result) >>
        ed == EditExifData(f, edited_data, outcome)
        l2 == Append(l1, Logged("edit_exif_data", BoolStr(ed.result)))
        rs == RestoreBackup(ed.file, bk.bak, restores)
    IN  IF bk.result = "None" THEN Handled(f, bk.bak, l1, "returned")
        ELSE IF ed.result THEN Handled(ed.file, bk.bak, l2, "returned")
        ELSE Handled(rs.file, bk.bak,
                     Append(l2, Logged("restore_backup", BoolStr(rs.result))),
                     "returned")

\* metadata_viewer_old.py edit_metadata that tries the timestamp although
\* edit_exif_data returned False
EditMetadataOld_StampsAfterFailure(f, b, selected, accepted, edited_data, file_timestamp, copies, outcome, utime_ok, restores) ==
    IF ~selected \/ ~accepted THEN Handled(f, b, <<>>, "returned")
    ELSE
    LET bk == CreateBackup(f, b, copies)
        l1 == << Logged("create_backup", bk.result) >>
        edits == edited_data # <<>>
        ed == IF edits THEN EditExifData(f, edited_data, outcome)
              ELSE Ret(f, TRUE)
        l2 == IF edits
              THEN Append(l1, Logged("edit_exif_data", BoolStr(ed.result)))
              ELSE l1
        stamps == ~Blank(file_timestamp)
        st == SetFileTimestamp(ed.file, file_timestamp, utime_ok)
        ts == IF stamps THEN Ret(st.file, ed.result /\ st.result)
              ELSE Ret(ed.file, ed.result)
        l3 == IF stamps
              THEN Append(l2, Logged("set_file_timestamp", BoolStr(st.result)))
              ELSE l2
        rs == RestoreBackup(ts.file, bk.bak, restores)
    IN  IF bk.result = "None" THEN Handled(f, bk.bak, l1, "returned")
        ELSE IF ts.result THEN Handled(ts.file, bk.bak, l3, "returned")
        ELSE Handled(rs.file, bk.bak,
                     Append(l3, Logged("restore_backup", BoolStr(rs.result))),
                     "returned")

\* metadata_viewer_old.py edit_metadata
EditMetadataOld(f, b, selected, accepted, edited_data, file_timestamp, copies, outcome, utime_ok, restores) ==
    IF ~selected \/ ~accepted THEN Handled(f, b, <<>>, "returned")
    ELSE
    LET bk == CreateBackup(f, b, copies)
        l1 == << Logged("create_backup", bk.result) >>
        edits == edited_data # <<>>
        ed == IF edits THEN EditExifData(f, edited_data, outcome)
              ELSE Ret(f, TRUE)
        l2 == IF edits
              THEN Append(l1, Logged("edit_exif_data", BoolStr(ed.result)))
              ELSE l1
        stamps == ed.result /\ ~Blank(file_timestamp)
        ts == IF stamps THEN SetFileTimestamp(ed.file, file_timestamp, utime_ok)
              ELSE Ret(ed.file, ed.result)
        l3 == IF stamps
              THEN Append(l2, Logged("set_file_timestamp", BoolStr(ts.result)))
              ELSE l2
        rs == RestoreBackup(ts.file, bk.bak, restores)
    IN  IF bk.result = "None" THEN Handled(f, bk.bak, l1, "returned")
        ELSE IF ts.result THEN Handled(ts.file, bk.bak, l3, "returned")
        ELSE Handled(rs.file, bk.bak,
                     Append(l3, Logged("restore_backup", BoolStr(rs.result))),
                     "returned")

\* metadata_viewer_old.py enable_privacy_mode; on failure the handler looks
\* up PrivacyHandler.remove_gps_data, which the class does not have, and
\* ends with AttributeError
EnablePrivacyMode(f, b, selected, copies, outcome) ==
    IF ~selected THEN Handled(f, b, <<>>, "returned")
    ELSE
    LET bk == CreateBackup(f, b, copies)
        l1 == << Logged("create_backup", bk.result) >>
        pm == PrivacyMode(f, PyNone, outcome)
        l2 == Append(l1, Logged("privacy_mode", BoolStr(pm.result)))
    IN  IF bk.result = "None" THEN Handled(f, bk.bak, l1, "returned")
        ELSE IF pm.result THEN Handled(pm.file, bk.bak, l2, "returned")
        ELSE Handled(pm.file, bk.bak, l2, "raised")

\* image files as they are when first opened
SomeExif ==
    { EmptyExif,
      SetTag(SetTag(EmptyExif, "0th", <<"ImageIFD", "Artist">>, PyBytes(<<120>>)),
             "GPS", <<"GPSIFD", "GPSLatitude">>, PyBytes(<<120>>)),
      SetTag(SetTag(SetTag(SetTag(SetTag(EmptyExif,
             "0th", <<"ImageIFD", "Make">>, PyBytes(<<120>>)),
             "0th", <<"unknown", "50000">>, PyInt(1)),
             "Exif", <<"ExifIFD", "DateTimeOriginal">>, PyBytes(<<120>>)),
             "GPS", <<"GPSIFD", "GPSLatitudeRef">>, PyBytes(<<78>>)),
             "1st", <<"ImageIFD", "DateTime">>, PyBytes(<<120>>)) }
SomeFiles == { Content(e, "original") : e \in SomeExif }

\* the values the edit dialog returns
EditedData ==
    { <<>>,
      << <<"Artist", PyStr(<<121>>)>> >>,
      << <<"Make", PyStr(<<233>>)>>, <<"Comment", PyStr(<<121>>)>> >> }
FileTimestamps == {"", " ", "2024-01-01 00:00:00", "yesterday"}
SaveOutcomes == {"ok", "load_fails", "dump_fails", "save_fails"}

View(op, h) ==
    /\ view_pre' = img
    /\ img' = h.img
    /\ bak' = h.bak
    /\ view_log' = h.log
    /\ view_op' = [op |-> op, outcome |-> h.outcome]

ViewEditMetadata ==
    \E selected \in BOOLEAN, accepted \in BOOLEAN, edited_data \in EditedData,
       copies \in BOOLEAN, outcome \in SaveOutcomes, restores \in BOOLEAN :
        View("edit_metadata",
             EditMetadata(img, bak, selected, accepted, edited_data, copies,
                          outcome, restores))

ViewEditMetadataOld ==
    \E selected \in BOOLEAN, accepted \in BOOLEAN, edited_data \in EditedData,
       file_timestamp \in FileTimestamps, copies \in BOOLEAN,
       outcome \in SaveOutcomes, utime_ok \in BOOLEAN, restores \in BOOLEAN :
        View("edit_metadata_old",
             EditMetadataOld(img, bak, selected, accepted, edited_data,
                             file_timestamp, copies, outcome, utime_ok,
                             restores))

ViewEnablePrivacyMode ==
    \E selected \in BOOLEAN, copies \in BOOLEAN, outcome \in SaveOutcomes :
        View("enable_privacy_mode",
             EnablePrivacyMode(img, bak, selected, copies, outcome))

ViewIdle ==
    /\ img = Damaged /\ bak = NoBackup /\ view_pre = Damaged
    /\ view_log = <<>> /\ view_op = [op |-> "idle", outcome |-> "returned"]

\* an image has been loaded; no handler has run yet
ViewInit ==
    /\ img \in SomeFiles
    /\ bak \in { NoBackup, Backup(Content(EmptyExif, "original")) }
    /\ view_pre = img
    /\ view_log = <<>>
    /\ view_op = [op |-> "load_image", outcome |-> "returned"]

ViewNext ==
    \/ ViewEditMetadata /\ UNCHANGED <<gpsVars, geoVars, tagVars, edVars, crypt, parser, export, groups, edit_hist>>
    \/ ViewEditMetadataOld /\ UNCHANGED <<gpsVars, geoVars, tagVars, edVars, crypt, parser, export, groups, edit_hist>>
    \/ ViewEnablePrivacyMode /\ UNCHANGED <<gpsVars, geoVars, tagVars, edVars, crypt, parser, export, groups, edit_hist>>

(***************************************************************************)
(* Repeated edits of one image file through edit_metadata                  *)
(***************************************************************************)
MaxEdits == 2        \* edits of the file in one run

\* the handler got past create_backup and called edit_exif_data
EditCarriedOut(h) ==
    h.log # <<>> /\ h.log[1] = Logged("create_backup", "path")

EditsIdle == edit_hist = [k |-> 0, first |-> Damaged]
EditsInit == ViewInit /\ EditsIdle

\* metadata_viewer.py edit_metadata, once more on the same file
EditAgain ==
    /\ edit_hist.k < MaxEdits
    /\ \E selected \in BOOLEAN, accepted \in BOOLEAN, edited_data \in EditedData,
          copies \in BOOLEAN, outcome \in SaveOutcomes, restores \in BOOLEAN :
         LET h == EditMetadata(img, bak, selected, accepted, edited_data,
                               copies, outcome, restores)
         IN  /\ View("edit_metadata", h)
             /\ edit_hist' =
                  IF EditCarriedOut(h)
                  THEN [k |-> edit_hist.k + 1,
                        first |-> IF edit_hist.k = 0 THEN img
                                  ELSE edit_hist.first]
                  ELSE edit_hist

EditsNext ==
    EditAgain
    /\ UNCHANGED <<gpsVars, geoVars, tagVars, edVars, crypt, parser, export, groups>>

(***************************************************************************)
(* Direct calls of MetadataEditor and PrivacyHandler on an image file      *)
(***************************************************************************)
MaxUpdates == 2      \* entries of exif_updates
MaxCategories == 2   \* entries of categories
MaxCalls == 1        \* calls made on one file

\* the sequences over S of length at most n without a repeated first component
RECURSIVE SeqsUpTo(_, _)
SeqsUpTo(S, n) ==
    IF n = 0 THEN { <<>> }
    ELSE SeqsUpTo(S, n - 1)
         \cup { Append(l, x) : l \in { l \in SeqsUpTo(S, n - 1) : Len(l) = n - 1 },
                               x \in S }

DistinctKeys(l) == \A i \in 1..Len(l), j \in 1..Len(l) : l[i][1] = l[j][1] => i = j

\* exif_updates: keys of the table and one that is not in it; a str with
\* non-ASCII characters and an int as values
UpdateKeys == {"Artist", "GPSLatitude", "Comment"}
UpdateValues == { PyStr(<<233, 8364>>), PyInt(1) }
SomeUpdates ==
    { l \in SeqsUpTo(UpdateKeys \X UpdateValues, MaxUpdates) : DistinctKeys(l) }

CategoryNames == {"GPS", "DateTime", "Camera", "Personal", "All", "Other"}
SomeCategories ==
    { PyNone } \cup { PyList(l) : l \in SeqsUpTo(CategoryNames, MaxCategories) }

EdCall(op, arg, outcome, result, n) ==
    [op |-> op, arg |-> arg, outcome |-> outcome, result |-> result, n |-> n]

Called(op, arg, outcome, r) ==
    /\ ed_call.n < MaxCalls
    /\ ed_pre' = ed_file
    /\ ed_file' = r.file
    /\ ed_call' = EdCall(op, arg, outcome, r.result, ed_call.n + 1)

CallEditExifData ==
    \E updates \in SomeUpdates, outcome \in SaveOutcomes :
        Called("edit_exif_data", updates, outcome,
               EditExifData(ed_file, updates, outcome))

CallPrivacyMode ==
    \E categories \in SomeCategories, outcome \in SaveOutcomes :
        Called("privacy_mode", categories, outcome,
               PrivacyMode(ed_file, categories, outcome))

EdIdle ==
    /\ ed_file = Damaged /\ ed_pre = Damaged
    /\ ed_call = EdCall("idle", <<>>, "ok", FALSE, 0)

EdInit ==
    /\ ed_file \in SomeFiles
    /\ ed_pre = ed_file
    /\ ed_call = EdCall("none", <<>>, "ok", FALSE, 0)

EdNext ==
    \/ CallEditExifData /\ UNCHANGED <<gpsVars, geoVars, tagVars, viewVars, crypt, parser, export, groups, edit_hist>>
    \/ CallPrivacyMode /\ UNCHANGED <<gpsVars, geoVars, tagVars, viewVars, crypt, parser, export, groups, edit_hist>>

(***************************************************************************)
(* encrypt_metadata and decrypt_metadata                                   *)
(***************************************************************************)
PyBool(b) == [t |-> "bool", v |-> <<b>>]
PyTuple(l) == [t |-> "tuple", v |-> l]
\* a dict is its list of <<key, value>> items in insertion order
PyDict(items) == [t |-> "dict", v |-> items]

\* decimal digits of a natural number
RECURSIVE Digits(_)
Digits(n) == IF n < 10 THEN <<48 + n>> ELSE Digits(n \div 10) \o <<48 + (n % 10)>>
\* str(n) for an int
IntStr(n) == IF n < 0 THEN <<45>> \o Digits(-n) ELSE Digits(n)

HexDigit(d) == IF d < 10 THEN 48 + d ELSE 87 + d
\* json.dumps of one character with ensure_ascii: \" \\ and \uXXXX
JsonChar(c) ==
    IF c = 34 THEN <<92, 34>>
    ELSE IF c = 92 THEN <<92, 92>>
    ELSE IF c < 128 THEN <<c>>
    ELSE <<92, 117, HexDigit(c \div 4096), HexDigit((c \div 256) % 16),
           HexDigit((c \div 16) % 16), HexDigit(c % 16)>>
RECURSIVE JsonChars(_)
JsonChars(str) ==
    IF str = <<>> THEN <<>> ELSE JsonChar(Head(str)) \o JsonChars(Tail(str))
JsonString(str) == <<34>> \o JsonChars(str) \o <<34>>

\* a dict key as json.dumps writes it: str as it is, int, bool and None as
\* the string of their JSON text
JsonKey(k) ==
    IF k.t = "str" THEN JsonString(k.v)
    ELSE IF k.t = "int" THEN <<34>> \o IntStr(k.v[1]) \o <<34>>
    ELSE IF k.t = "bool"
         THEN IF k.v[1] THEN <<34, 116, 114, 117, 101, 34>>
              ELSE <<34, 102, 97, 108, 115, 101, 34>>
    ELSE <<34, 110, 117, 108, 108, 34>>

\* json.dumps with the default separators ', ' and ': '
RECURSIVE JsonDumps(_), JsonList(_), JsonItems(_)
JsonDumps(x) ==
    IF x.t = "str" THEN JsonString(x.v)
    ELSE IF x.t = "int" THEN IntStr(x.v[1])
    ELSE IF x.t = "bool"
         THEN IF x.v[1] THEN <<116, 114, 117, 101>> ELSE <<102, 97, 108, 115, 101>>
    ELSE IF x.t = "None" THEN <<110, 117, 108, 108>>
    ELSE IF x.t \in {"list", "tuple"} THEN <<91>> \o JsonList(x.v) \o <<93>>
    ELSE <<123>> \o JsonItems(x.v) \o <<125>>
JsonList(l) ==
    IF l = <<>> THEN <<>>
    ELSE IF Len(l) = 1 THEN JsonDumps(l[1])
    ELSE JsonDumps(l[1]) \o <<44, 32>> \o JsonList(Tail(l))
JsonItems(l) ==
    IF l = <<>> THEN <<>>
    ELSE JsonKey(l[1][1]) \o <<58, 32>> \o JsonDumps(l[1][2])
         \o (IF Len(l) = 1 THEN <<>> ELSE <<44, 32>> \o JsonItems(Tail(l)))

\* d[k] = v on a dict given by its items
RECURSIVE DictSet(_, _, _)
DictSet(items, k, v) ==
    IF items = <<>> THEN << <<k, v>> >>
    ELSE IF items[1][1] = k THEN << <<k, v>> >> \o Tail(items)
    ELSE << items[1] >> \o DictSet(Tail(items), k, v)

HexVal(c) == IF c < 58 THEN c - 48 ELSE c - 87
Parsed(v, i) == [v |-> v, i |-> i]
\* the position of the first character from i on that is not a blank
RECURSIVE SkipBlanks(_, _)
SkipBlanks(str, i) ==
    IF i <= Len(str) /\ str[i] = 32 THEN SkipBlanks(str, i + 1) ELSE i

\* json.loads on text that json.dumps wrote: the value that starts at
\* position i and the position after it
RECURSIVE ParseString(_, _, _), ParseInt(_, _, _), ParseValue(_, _), ParseArray(_, _, _), ParseObject(_, _, _)
ParseString(str, i, acc) ==
    IF str[i] = 34 THEN Parsed(PyStr(acc), i + 1)
    ELSE IF str[i] # 92 THEN ParseString(str, i + 1, Append(acc, str[i]))
    ELSE IF str[i + 1] = 117
         THEN ParseString(str, i + 6,
                  Append(acc, HexVal(str[i + 2]) * 4096 + HexVal(str[i + 3]) * 256
                              + HexVal(str[i + 4]) * 16 + HexVal(str[i + 5])))
    ELSE ParseString(str, i + 2, Append(acc, str[i + 1]))
ParseInt(str, i, acc) ==
    IF i <= Len(str) /\ str[i] \in 48..57
    THEN ParseInt(str, i + 1, acc * 10 + (str[i] - 48))
    ELSE Parsed(PyInt(acc), i)
ParseValue(str, i) ==
    IF str[i] = 34 THEN ParseString(str, i + 1, <<>>)
    ELSE IF str[i] = 91 THEN ParseArray(str, SkipBlanks(str, i + 1), <<>>)
    ELSE IF str[i] = 123 THEN ParseObject(str, SkipBlanks(str, i + 1), <<>>)
    ELSE IF str[i] = 110 THEN Parsed(PyNone, i + 4)
    ELSE IF str[i] = 116 THEN Parsed(PyBool(TRUE), i + 4)
    ELSE IF str[i] = 102 THEN Parsed(PyBool(FALSE), i + 5)
    ELSE IF str[i] = 45
         THEN LET n == ParseInt(str, i + 1, 0) IN Parsed(PyInt(-(n.v.v[1])), n.i)
    ELSE ParseInt(str, i, 0)
ParseArray(str, i, acc) ==
    IF str[i] = 93 THEN Parsed(PyList(acc), i + 1)
    ELSE IF str[i] = 44 THEN ParseArray(str, SkipBlanks(str, i + 1), acc)
    ELSE LET x == ParseValue(str, i)
         IN  ParseArray(str, SkipBlanks(str, x.i), Append(acc, x.v))
ParseObject(str, i, acc) ==
    IF str[i] = 125 THEN Parsed(PyDict(acc), i + 1)
    ELSE IF str[i] = 44 THEN ParseObject(str, SkipBlanks(str, i + 1), acc)
    ELSE LET k == ParseString(str, i + 1, <<>>)
             x == ParseValue(str, SkipBlanks(str, SkipBlanks(str, k.i) + 1))
         IN  ParseObject(str, SkipBlanks(str, x.i), DictSet(acc, k.v, x.v))
JsonLoads(str) == ParseValue(str, SkipBlanks(str, 1)).v

\* the base64 alphabet: A-Z a-z 0-9 + /
B64Char(n) ==
    IF n < 26 THEN 65 + n ELSE IF n < 52 THEN 71 + n ELSE IF n < 62 THEN n - 4
    ELSE IF n = 62 THEN 43 ELSE 47
B64Val(c) ==
    IF c = 43 THEN 62 ELSE IF c = 47 THEN 63 ELSE IF c < 58 THEN c + 4
    ELSE IF c < 91 THEN c - 65 ELSE c - 71

\* base64.b64encode: every three bytes give four characters, '=' pads
B64Group(b, g) ==
    LET i == 3 * g - 2
    IN  IF i = Len(b)
        THEN <<B64Char(b[i] \div 4), B64Char((b[i] % 4) * 16), 61, 61>>
        ELSE IF i + 1 = Len(b)
        THEN <<B64Char(b[i] \div 4),
               B64Char((b[i] % 4) * 16 + (b[i + 1] \div 16)),
               B64Char((b[i + 1] % 16) * 4), 61>>
        ELSE <<B64Char(b[i] \div 4),
               B64Char((b[i] % 4) * 16 + (b[i + 1] \div 16)),
               B64Char((b[i + 1] % 16) * 4 + (b[i + 2] \div 64)),
               B64Char(b[i + 2] % 64)>>
B64Encode(b) ==
    Concat([ g \in 1..((Len(b) + 2) \div 3) |-> B64Group(b, g) ],
           1, (Len(b) + 2) \div 3)

\* base64.b64decode of correctly padded text
B64Ungroup(c, g) ==
    LET i == 4 * g - 3
        b1 == B64Val(c[i]) * 4 + (B64Val(c[i + 1]) \div 16)
        b2 == (B64Val(c[i + 1]) % 16) * 16 + (B64Val(c[i + 2]) \div 4)
        b3 == (B64Val(c[i + 2]) % 4) * 64 + B64Val(c[i + 3])
    IN  IF c[i + 2] = 61 THEN <<b1>>
        ELSE IF c[i + 3] = 61 THEN <<b1, b2>>
        ELSE <<b1, b2, b3>>
B64Decode(c) ==
    Concat([ g \in 1..(Len(c) \div 4) |-> B64Ungroup(c, g) ], 1, Len(c) \div 4)

\* encrypt_metadata that appends the password to the JSON text
EncryptMetadata_Keyed(metadata, password) ==
    Utf8Decode(B64Encode(Utf8Encode(JsonDumps(metadata) \o password)))

\* PrivacyHandler.encrypt_metadata for a dict that json.dumps accepts
EncryptMetadata(metadata, password) ==
    Utf8Decode(B64Encode(Utf8Encode(JsonDumps(metadata))))

\* PrivacyHandler.decrypt_metadata; text that does not decode gives {}
DecryptMetadata(encrypted_data, password) ==
    IF encrypted_data = <<>> \/ Len(encrypted_data) % 4 # 0 THEN PyDict(<<>>)
    ELSE JsonLoads(Utf8Decode(B64Decode(Utf8Encode(encrypted_data))))

MaxEntries == 2      \* items of the metadata dict

\* keys and values of the metadata dicts: str with quote and non-ASCII
\* characters, int, None, bool, list, tuple, nested dict
MetaKeys == { PyStr(<<97>>), PyStr(<<233, 34>>), PyInt(1), PyStr(<<49>>) }
MetaValues ==
    { PyStr(<<97, 92, 32>>), PyInt(12), PyInt(-3), PyNone, PyBool(TRUE),
      PyList(<<PyInt(1), PyStr(<<8364>>)>>), PyTuple(<<PyInt(1)>>),
      PyDict(<< <<PyStr(<<98>>), PyList(<<>>)>> >>),
      PyDict(<< <<PyInt(0), PyBool(FALSE)>> >>) }
SomeMetadata ==
    { PyDict(l) : l \in { l \in SeqsUpTo(MetaKeys \X MetaValues, MaxEntries) :
                            DistinctKeys(l) } }
Passwords == { <<>>, <<112>>, <<112, 119>> }

CryptIdle == crypt = [pc |-> "idle"]

CryptInit ==
    \E m \in SomeMetadata, p1 \in Passwords, p2 \in Passwords :
        crypt = [pc |-> "call", m |-> m, p1 |-> p1, p2 |-> p2]

\* encrypt_metadata(m, p1), encrypt_metadata(m, p2) and
\* decrypt_metadata(encrypt_metadata(m, p1), p2)
EncryptDecrypt ==
    /\ crypt.pc = "call"
    /\ crypt' = [pc |-> "done", m |-> crypt.m, p1 |-> crypt.p1, p2 |-> crypt.p2,
                 e1 |-> EncryptMetadata(crypt.m, crypt.p1),
                 e2 |-> EncryptMetadata(crypt.m, crypt.p2),
                 d |-> DecryptMetadata(EncryptMetadata(crypt.m, crypt.p1),
                                       crypt.p2)]

CryptNext ==
    EncryptDecrypt
    /\ UNCHANGED <<gpsVars, geoVars, tagVars, viewVars, edVars, parser, export, groups, edit_hist>>

(***************************************************************************)
(* MetadataParser                                                          *)
(***************************************************************************)
\* str.strip(): without leading and trailing white space
IsSpace(c) == c \in {9, 10, 11, 12, 13, 32}
RECURSIVE LStrip(_), RStrip(_)
LStrip(str) == IF str # <<>> /\ IsSpace(Head(str)) THEN LStrip(Tail(str)) ELSE str
RStrip(str) ==
    IF str # <<>> /\ IsSpace(str[Len(str)])
    THEN RStrip(SubSeq(str, 1, Len(str) - 1)) ELSE str
Strip(str) == RStrip(LStrip(str))

\* bytes.decode('utf-8', errors='ignore') for ASCII bytes, two- and
\* three-byte characters and bytes that start no character, which are dropped
DecodeIgnore(b) ==
    Concat([ i \in 1..Len(b) |->
               IF b[i] < 128 THEN <<b[i]>>
               ELSE IF b[i] \in 194..223 /\ i + 1 <= Len(b) /\ b[i + 1] \in 128..191
                    THEN <<(b[i] - 192) * 64 + (b[i + 1] - 128)>>
               ELSE IF b[i] \in 225..239 /\ i + 2 <= Len(b)
                       /\ b[i + 1] \in 128..191 /\ b[i + 2] \in 128..191
                    THEN <<(b[i] - 224) * 4096 + (b[i + 1] - 128) * 64
                           + (b[i + 2] - 128)>>
               ELSE <<>> ],
           1, Len(b))

\* str(value) for an int, None, a str and a tuple of ints
RECURSIVE IntList(_)
IntList(l) ==
    IF l = <<>> THEN <<>>
    ELSE IF Len(l) = 1 THEN IntStr(l[1].v[1])
    ELSE IntStr(l[1].v[1]) \o <<44, 32>> \o IntList(Tail(l))
StrOf(value) ==
    IF value.t = "int" THEN IntStr(value.v[1])
    ELSE IF value.t = "None" THEN <<78, 111, 110, 101>>
    ELSE IF value.t = "str" THEN value.v
    ELSE IF Len(value.v) = 1 THEN <<40>> \o IntList(value.v) \o <<44, 41>>
    ELSE <<40>> \o IntList(value.v) \o <<41>>

\* lines 137-147 and 166-176: the display string of a tag value
DisplayValue(value) ==
    IF value.t = "bytes" THEN Strip(DecodeIgnore(value.v))
    ELSE Strip(StrOf(value))

StartsWith(b, prefix) ==
    Len(b) >= Len(prefix) /\ SubSeq(b, 1, Len(prefix)) = prefix

\* the signatures that parse_makernote knows, with the maker and type shown
MakerSignatures ==
    << <<<<65, 112, 112, 108, 101>>, "Apple iPhone", "Apple MakerNote">>,
       <<<<67, 97, 110, 111, 110>>, "Canon", "Canon MakerNote (Binary Format)">>,
       <<<<78, 105, 107, 111, 110>>, "Nikon", "Nikon MakerNote (Binary Format)">>,
       <<<<83, 79, 78, 89>>, "Sony", "Sony MakerNote (Binary Format)">>,
       <<<<80, 97, 110, 97, 115, 111, 110, 105, 99>>, "Panasonic", "Panasonic MakerNote (Binary Format)">>,
       <<<<70, 85, 74, 73, 70, 73, 76, 77>>, "Fujifilm", "Fujifilm MakerNote (Binary Format)">>,
       <<<<79, 108, 121, 109, 112, 117, 115>>, "Olympus", "Olympus MakerNote (Binary Format)">> >>

Readable(text) == SelectSeq(text, LAMBDA c : c \in 32..126 \/ c \in {9, 10})
MakerNoteLimit == 150
Prefix(str, n) == IF Len(str) <= n THEN str ELSE SubSeq(str, 1, n)

\* MetadataParser.parse_makernote for bytes: the keys it returns (the values
\* are non-empty strings)
ParseMakernote(makernote_data) ==
    IF makernote_data.v = <<>> THEN {}
    ELSE IF \E k \in 1..Len(MakerSignatures) :
                StartsWith(makernote_data.v, MakerSignatures[k][1])
    THEN {"Camera Maker", "Type"}
    ELSE IF Prefix(Readable(DecodeIgnore(makernote_data.v)), MakerNoteLimit) # <<>>
    THEN {"Camera Maker", "Readable Data"}
    ELSE {"Camera Maker", "Type"}

\* a str that an f-string, str() or strftime built
Text == PyStr(<<49>>)

\* the name shown for a tag: piexif's name, or str(tag) when the lookup raises
ShownName(ifd_name, tag) == tag[2]

\* the entries that the loop over one IFD adds (lines 121-153): name -> string
IfdEntries(ifd_name, ifd) ==
    LET plain == { t \in DOMAIN ifd :
                     ShownName(ifd_name, t) # "MakerNote"
                     /\ DisplayValue(ifd[t]) # <<>> }
        notes == { t \in DOMAIN ifd : ShownName(ifd_name, t) = "MakerNote" }
        noteKeys == UNION { ParseMakernote(ifd[t]) : t \in notes }
    IN  [ n \in { ShownName(ifd_name, t) : t \in plain } |->
            LET t == CHOOSE t \in plain : ShownName(ifd_name, t) = n
            IN  PyStr(DisplayValue(ifd[t])) ]
        @@ [ n \in { "MakerNote - " \o k : k \in noteKeys } |-> Text ]

\* exif_data after the loop over 0th, Exif, GPS, 1st: a later IFD overwrites
\* an entry of the same name
ExifEntries(exif) ==
    IfdEntries("1st", exif["1st"]) @@ IfdEntries("GPS", exif["GPS"])
    @@ IfdEntries("Exif", exif["Exif"]) @@ IfdEntries("0th", exif["0th"])

\* the entries that the fallback loop adds from image.getexif() (lines
\* 161-182): PIL's tag name, or str(tag_id)
PilEntries(pil) ==
    [ n \in { t \in DOMAIN pil : DisplayValue(pil[t]) # <<>> } |->
        PyStr(DisplayValue(pil[n])) ]

\* {'Note': 'No EXIF data found'}
NoExifNote == [ k \in {"Note"} |-> PyStr(<<78, 111, 32, 69, 88, 73, 70, 32, 100, 97, 116, 97, 32, 102, 111, 117, 110, 100>>) ]

\* the result of get_exif_data that returns the empty dict as it is
ExifResult_Empty(exif_data) == exif_data

\* line 187: exif_data if exif_data else {'Note': 'No EXIF data found'}
ExifResult(exif_data) ==
    IF DOMAIN exif_data = {} THEN NoExifNote ELSE exif_data

\* a file as the parser sees it: its suffix, whether Image.open succeeds,
\* what piexif.load gives (or that it raises) and what image.getexif() gives
Raises == [raises |-> TRUE]
Gives(x) == [raises |-> FALSE, value |-> x]

\* MetadataParser.get_exif_data: the dict returned, whether the fallback
\* reader was used and whether the call raised
GetExifData(file) ==
    IF ~file.piexif.raises
    THEN [value |-> ExifResult(ExifEntries(file.piexif.value)),
          fallback |-> FALSE, raised |-> FALSE]
    ELSE IF file.opens /\ ~file.pil.raises
    THEN [value |-> ExifResult(PilEntries(file.pil.value)),
          fallback |-> TRUE, raised |-> FALSE]
    ELSE [value |-> ExifResult(EmptyDict), fallback |-> TRUE, raised |-> FALSE]

SUPPORTED_FORMATS ==
    { <<46, 106, 112, 103>>,
      <<46, 106, 112, 101, 103>>,
      <<46, 112, 110, 103>>,
      <<46, 103, 105, 102>>,
      <<46, 98, 109, 112>>,
      <<46, 116, 105, 102, 102>>,
      <<46, 116, 105, 102>>,
      <<46, 119, 101, 98, 112>>,
      <<46, 105, 99, 111>>,
      <<46, 112, 112, 109>>,
      <<46, 112, 103, 109>>,
      <<46, 112, 98, 109>>,
      <<46, 112, 110, 109>> }

\* is_supported_image that compares the suffix as it is written
IsSupportedImage_CaseSensitive(suffix) == suffix \in SUPPORTED_FORMATS

\* MetadataParser.is_supported_image, for file_path.suffix
IsSupportedImage(suffix) == LowerStr(suffix) \in SUPPORTED_FORMATS

Yes == PyStr(<<89, 101, 115>>)
No == PyStr(<<78, 111>>)
ErrorDict == [ k \in {"Error"} |-> Text ]

\* MetadataParser.get_basic_info: stat and Image.open succeed, or the
\* exception is turned into {'Error': str(e)}
GetBasicInfo(file) ==
    IF file.opens
    THEN [ k \in {"Filename", "File Path", "File Size", "File Format",
                  "Image Width", "Image Height", "Image Mode", "DPI",
                  "Modified Date"} |->
             IF k = "File Format" THEN file.image.format
             ELSE IF k = "Image Mode" THEN PyStr(file.image.mode)
             ELSE Text ]
    ELSE ErrorDict

\* MetadataParser.get_image_properties
GetImageProperties(file) ==
    IF file.opens
    THEN LET image == file.image
             keys == {"Has Color Profile", "Has Transparency"}
                     \cup (IF image.is_animated # "absent"
                           THEN {"Is Animated"} ELSE {})
                     \cup (IF image.is_animated = "yes"
                           THEN {"Number of Frames"} ELSE {})
                     \cup (image.info \ {"icc_profile", "transparency", "dpi"})
         IN  [ k \in keys |->
                 IF k = "Has Color Profile"
                 THEN IF "icc_profile" \in image.info THEN Yes ELSE No
                 ELSE IF k = "Is Animated"
                 THEN IF image.is_animated = "yes" THEN Yes ELSE No
                 ELSE IF k = "Has Transparency"
                 THEN IF image.mode \in {<<82, 71, 66, 65>>, <<76, 65>>, <<80, 65>>}
                         \/ "transparency" \in image.info
                      THEN Yes ELSE No
                 ELSE Text ]
    ELSE ErrorDict

\* {'Error': 'Unsupported file format'}
Unsupported == [ k \in {"Error"} |-> PyStr(<<85, 110, 115, 117, 112, 112, 111, 114, 116, 101, 100, 32, 102, 105, 108, 101, 32, 102, 111, 114, 109, 97, 116>>) ]

\* how often a call reads the file: stat, Image.open or piexif.load
ExifReads(file) == IF file.piexif.raises THEN 2 ELSE 1

\* MetadataParser.get_all_metadata: the dict returned and the number of
\* reads of the file
GetAllMetadata(file) ==
    IF ~IsSupportedImage(file.suffix)
    THEN [value |-> Unsupported,
          reads |-> 0, raised |-> FALSE]
    ELSE [value |-> [ k \in {"Basic Information", "EXIF Data",
                             "Image Properties"} |->
                        IF k = "Basic Information" THEN GetBasicInfo(file)
                        ELSE IF k = "EXIF Data" THEN GetExifData(file).value
                        ELSE GetImageProperties(file) ],
          reads |-> 2 + ExifReads(file) + 1, raised |-> FALSE]

Suffixes ==
    { <<46, 106, 112, 103>>, <<46, 74, 80, 71>>, <<46, 74, 112, 101, 103>>, <<46, 112, 110, 103>>, <<46, 84, 73, 70, 70>>, <<46, 116, 120, 116>>, <<>>, <<46, 106, 112, 103, 120>>, <<46, 80, 110, 77>>, <<46, 104, 101, 105, 99>> }

\* what piexif.load can give for a file
SomeLoads ==
    { Raises } \cup { Gives(e) : e \in SomeExif }
    \cup { Gives(SetTag(EmptyExif, "0th", <<"ImageIFD", "Artist">>, v)) :
             v \in {PyBytes(<<32, 9>>), PyBytes(<<255>>), PyBytes(<<>>),
                    PyBytes(<<32, 195, 169, 32>>), PyTuple(<<PyInt(1), PyInt(2)>>)} }
    \cup { Gives(SetTag(EmptyExif, "Exif", <<"ExifIFD", "MakerNote">>, v)) :
             v \in {PyBytes(<<>>), PyBytes(<<65, 112, 112, 108, 101, 0>>),
                    PyBytes(<<0, 255>>), PyBytes(<<0, 104, 105>>)} }
    \cup { Gives(SetTag(SetTag(EmptyExif,
                  "0th", <<"ImageIFD", "DateTime">>, PyBytes(<<49>>)),
                  "1st", <<"ImageIFD", "DateTime">>, PyBytes(<<50>>))) }

\* what image.getexif() can give: tag name -> value
SomePilExif ==
    { Raises, Gives(EmptyDict),
      Gives([ k \in {"Artist"} |-> PyStr(<<32>>) ]),
      Gives([ k \in {"Make", "59932"} |->
                IF k = "Make" THEN PyStr(<<120, 32>>) ELSE PyBytes(<<0, 32>>) ]) }

SomeImages ==
    { [format |-> PyStr(<<74, 80, 69, 71>>), mode |-> <<82, 71, 66>>, is_animated |-> "absent",
       info |-> {"dpi", "jfif"}],
      [format |-> PyNone, mode |-> <<82, 71, 66, 65>>, is_animated |-> "no",
       info |-> {}],
      [format |-> PyStr(<<71, 73, 70>>), mode |-> <<80>>, is_animated |-> "yes",
       info |-> {"transparency", "icc_profile", "comment"}] }
NoImage == [format |-> PyNone, mode |-> <<>>, is_animated |-> "absent", info |-> {}]

\* the files given to the parser; a file that Image.open rejects has no image
ParserFiles ==
    { [suffix |-> x, opens |-> TRUE, piexif |-> l, pil |-> e, image |-> i] :
        x \in Suffixes, l \in SomeLoads, e \in SomePilExif, i \in SomeImages }
    \cup
    { [suffix |-> x, opens |-> FALSE, piexif |-> l, pil |-> Raises,
       image |-> NoImage] : x \in Suffixes, l \in SomeLoads }

ParserIdle == parser = [pc |-> "idle"]
ParserInit == \E file \in ParserFiles : parser = [pc |-> "call", file |-> file]

CallGetExifData ==
    /\ parser.pc = "call"
    /\ parser' = [pc |-> "done", file |-> parser.file, op |-> "get_exif_data",
                  ret |-> GetExifData(parser.file)]

CallGetAllMetadata ==
    /\ parser.pc = "call"
    /\ parser' = [pc |-> "done", file |-> parser.file, op |-> "get_all_metadata",
                  ret |-> GetAllMetadata(parser.file)]

ParserNext ==
    \/ CallGetExifData
       /\ UNCHANGED <<gpsVars, geoVars, tagVars, viewVars, edVars, crypt, export, groups, edit_hist>>
    \/ CallGetAllMetadata
       /\ UNCHANGED <<gpsVars, geoVars, tagVars, viewVars, edVars, crypt, export, groups, edit_hist>>

(***************************************************************************)
(* MetadataEditor.export_metadata_to_file                                  *)
(***************************************************************************)
SeparatorWidth == 80
Repeat(c, n) == [ i \in 1..n |-> c ]
NewLine == <<10>>

\* a dict argument: its list of <<key, value>> items in insertion order, the
\* keys being str
ItemsDict(items) == [t |-> "dict", v |-> items]

\* the argument of the writes made for one section when every entry is
\* written as the key alone
SectionWrites_KeysOnly(section, data) ==
    << NewLine \o <<91>> \o section \o <<93>> \o NewLine,
       Repeat(45, SeparatorWidth) \o NewLine >>
    \o (IF data.t = "dict"
        THEN [ i \in 1..Len(data.v) |-> data.v[i][1] \o NewLine ]
        ELSE << StrOf(data) \o NewLine >>)

\* lines 230-236: the arguments of the writes made for one section
SectionWrites(section, data) ==
    << NewLine \o <<91>> \o section \o <<93>> \o NewLine,
       Repeat(45, SeparatorWidth) \o NewLine >>
    \o (IF data.t = "dict"
        THEN [ i \in 1..Len(data.v) |->
                 data.v[i][1] \o <<58, 32>> \o StrOf(data.v[i][2]) \o NewLine ]
        ELSE << StrOf(data) \o NewLine >>)

\* lines 225-236: the arguments of all writes, in order
ExportWrites(name, now, metadata) ==
    << <<77, 101, 116, 97, 100, 97, 116, 97, 32, 69, 120, 112, 111, 114, 116, 32, 102, 111, 114, 58, 32>> \o name \o NewLine,
       <<69, 120, 112, 111, 114, 116, 32, 68, 97, 116, 101, 58, 32>> \o now \o NewLine,
       Repeat(61, SeparatorWidth) \o NewLine \o NewLine >>
    \o Concat([ i \in 1..Len(metadata) |->
                  SectionWrites(metadata[i][1], metadata[i][2]) ],
              1, Len(metadata))

\* the export file: absent, or its bytes
Absent == [exists |-> FALSE, bytes |-> <<>>]
Written(text) == [exists |-> TRUE, bytes |-> Utf8Encode(text)]

\* MetadataEditor.export_metadata_to_file: open() raises, or the file is
\* created and `done` writes reach it before one raises (all of them when
\* done is their number)
ExportMetadataToFile(name, metadata, now, opens, done) ==
    LET writes == ExportWrites(name, now, metadata)
    IN  IF ~opens THEN [file |-> Absent, ret |-> FALSE]
        ELSE [file |-> Written(Concat(writes, 1, done)),
              ret |-> done = Len(writes)]

MaxSections == 2     \* sections of the metadata
MaxItems == 2        \* entries of one section

ExportNames == { <<97, 46, 106, 112, 103>> }
ExportDates == { <<50, 48, 50, 54, 45, 48, 49, 45, 48, 50, 32, 48, 51, 58, 48, 52, 58, 48, 53>> }
SectionNames == { <<69, 88, 73, 70, 32, 68, 97, 116, 97>>, <<69, 114, 114, 111, 114>> }
ItemKeys == { <<77, 97, 107, 101>>, <<65, 114, 116, 105, 115, 116>> }
ItemValues == { PyStr(<<120>>), PyStr(<<97, 10, 98>>), PyInt(1), PyNone }
\* the sequences over S of length at most n whose first components differ
RECURSIVE DistinctSeqs(_, _)
DistinctSeqs(S, n) ==
    IF n = 0 THEN { <<>> }
    ELSE LET shorter == DistinctSeqs(S, n - 1)
         IN  shorter \cup { Append(l[1], l[2]) :
                              l \in { y \in shorter \X S :
                                        \A i \in 1..Len(y[1]) : y[1][i][1] # y[2][1] } }
SectionData ==
    { ItemsDict(l) : l \in DistinctSeqs(ItemKeys \X ItemValues, MaxItems) }
    \cup { PyStr(<<85, 110, 115, 117, 112, 112, 111, 114, 116, 101, 100, 32, 102, 105, 108, 101, 32, 102, 111, 114, 109, 97, 116>>) }
SomeExports == DistinctSeqs(SectionNames \X SectionData, MaxSections)

ExportIdle == export = [pc |-> "idle"]
ExportInit ==
    \E name \in ExportNames, now \in ExportDates, metadata \in SomeExports :
        export = [pc |-> "call", name |-> name, now |-> now,
                  metadata |-> metadata]

CallExport ==
    /\ export.pc = "call"
    /\ \E opens \in BOOLEAN,
          done \in 0..Len(ExportWrites(export.name, export.now, export.metadata)) :
          /\ ~opens => done = 0
          /\ export' = [pc |-> "done", name |-> export.name, now |-> export.now,
                        metadata |-> export.metadata,
                        opens |-> opens, done |-> done,
                        out |-> ExportMetadataToFile(export.name, export.metadata,
                                                     export.now, opens, done)]

ExportNext ==
    CallExport
    /\ UNCHANGED <<gpsVars, geoVars, tagVars, viewVars, edVars, crypt, parser, groups, edit_hist>>

(***************************************************************************)
(* GPSHandler.group_images_by_location                                     *)
(***************************************************************************)
MaxImages == 3       \* entries of image_files

\* the image files on disk: the GPS IFD of each, and whether piexif.load
\* succeeds on it
DiskFile(ifd, loads) == [ifd |-> ifd, loads |-> loads]
Disk ==
    [ p \in {"a.jpg", "b.jpg", "c.jpg", "d.jpg", "e.jpg", "f.jpg"} |->
        IF p = "a.jpg"
        THEN DiskFile(GpsIfd(TRUE, << Rat(28, 1), Rat(42, 1), Rat(1476, 100) >>,
                             TRUE, <<ByteN>>, TRUE, DmsLon, TRUE, <<ByteE>>), TRUE)
        ELSE IF p = "b.jpg"
        THEN DiskFile(GpsIfd(TRUE, << Rat(28, 1), Rat(42, 1), Rat(0, 100) >>,
                             TRUE, <<ByteN>>, TRUE, DmsLon, FALSE, <<>>), TRUE)
        ELSE IF p = "c.jpg" THEN DiskFile(EmptyIfd, TRUE)
        ELSE IF p = "d.jpg"
        THEN DiskFile(GpsIfd(TRUE, << Rat(0, 1), Rat(0, 1), Rat(0, 100) >>,
                             TRUE, <<ByteN>>,
                             TRUE, << Rat(0, 1), Rat(0, 1), Rat(0, 100) >>,
                             TRUE, <<ByteE>>), TRUE)
        ELSE IF p = "e.jpg"
        THEN DiskFile(GpsIfd(TRUE, << Rat(19, 1), Rat(4, 1), Rat(3360, 100) >>,
                             TRUE, <<ByteS>>,
                             TRUE, << Rat(72, 1), Rat(52, 1), Rat(3972, 100) >>,
                             TRUE, <<ByteW>>), TRUE)
        ELSE DiskFile(EmptyIfd, FALSE) ]

\* reverse_geocode(latitude, longitude) as a value
ReverseGeocodeOf(latitude, longitude) ==
    CHOOSE r \in { GeoReturn(st, latitude, longitude) :
                     st \in { GeoLoop(GeoLoopStart, latitude, longitude, 1, DbSize) } } :
        TRUE

\* lines 266-271 for one file: whether extract_gps_coordinates returns
\* coordinates, and the location name they give
LocatedFile(file) ==
    CHOOSE r \in { IF c.ok
                   THEN CHOOSE n \in { [ok |-> TRUE,
                                        name |-> ReverseGeocodeOf(latitude, longitude)] :
                                         latitude \in {c.lat}, longitude \in {c.lon} } :
                            TRUE
                   ELSE [ok |-> FALSE, name |-> GeoName("")] :
                     c \in { ExtractCoords(file.ifd, file.loads) } } :
        TRUE

\* the same for every file on disk, as pairs of a path and what was found
LocatedFiles == { << p, LocatedFile(Disk[p]) >> : p \in DOMAIN Disk }
Located == [ p \in DOMAIN Disk |-> (CHOOSE t \in LocatedFiles : t[1] = p)[2] ]

\* one iteration that starts the group anew for every image
GroupStep_Replace(location_groups, image_file) ==
    CHOOSE r \in { IF ~found.ok THEN location_groups
                   ELSE [ k \in DOMAIN location_groups \cup {found.name} |->
                           IF k = found.name THEN <<image_file>>
                           ELSE location_groups[k] ] :
                     found \in { Located[image_file] } } :
        TRUE

\* one iteration of the loop of lines 265-276; found is what lines 266-271
\* compute for image_file
GroupStep(location_groups, image_file) ==
    CHOOSE r \in { IF ~found.ok THEN location_groups
                   ELSE [ k \in DOMAIN location_groups \cup {found.name} |->
                           IF k \notin DOMAIN location_groups THEN <<image_file>>
                           ELSE IF k = found.name
                           THEN Append(location_groups[k], image_file)
                           ELSE location_groups[k] ] :
                     found \in { Located[image_file] } } :
        TRUE

\* the loop of lines 265-276; each iteration is computed to a value before
\* the next one starts
RECURSIVE GroupLoop(_, _)
GroupLoop(location_groups, image_files) ==
    IF image_files = <<>> THEN location_groups
    ELSE CHOOSE r \in { GroupLoop(g, Tail(image_files)) :
                          g \in { GroupStep(location_groups, Head(image_files)) } } :
             TRUE

\* group_images_by_location(image_files, radius_km)
GroupImagesByLocation(image_files, radius_km) == GroupLoop(EmptyDict, image_files)

\* the lists of at most n paths
RECURSIVE PathLists(_)
PathLists(n) ==
    IF n = 0 THEN { <<>> }
    ELSE LET shorter == PathLists(n - 1)
         IN  shorter \cup { Append(l, p) : l \in shorter, p \in DOMAIN Disk }
\* radius_km, in kilometres
Radii == {1, 50}

GroupIdle == groups = [pc |-> "idle"]
GroupInit ==
    \E image_files \in PathLists(MaxImages), radius_km \in Radii :
        groups = [pc |-> "call", image_files |-> image_files,
                  radius_km |-> radius_km]

CallGroupImages ==
    /\ groups.pc = "call"
    /\ groups' = [pc |-> "done", image_files |-> groups.image_files,
                  radius_km |-> groups.radius_km,
                  ret |-> GroupImagesByLocation(groups.image_files,
                                                groups.radius_km)]

GroupNext ==
    CallGroupImages
    /\ UNCHANGED <<gpsVars, geoVars, tagVars, viewVars, edVars, crypt, parser, export, edit_hist>>

InitEd == EdInit /\ GpsIdle /\ GeoIdle /\ TagIdle /\ ViewIdle /\ CryptIdle /\ ParserIdle /\ ExportIdle /\ GroupIdle /\ EditsIdle

SpecEd == InitEd /\ [][EdNext]_vars

InitExport == ExportInit /\ GpsIdle /\ GeoIdle /\ TagIdle /\ ViewIdle /\ EdIdle /\ CryptIdle /\ ParserIdle /\ GroupIdle /\ EditsIdle

SpecExport == InitExport /\ [][ExportNext]_vars

InitParser == ParserInit /\ GpsIdle /\ GeoIdle /\ TagIdle /\ ViewIdle /\ EdIdle /\ CryptIdle /\ ExportIdle /\ GroupIdle /\ EditsIdle

SpecParser == InitParser /\ [][ParserNext]_vars

InitCrypt == CryptInit /\ GpsIdle /\ GeoIdle /\ TagIdle /\ ViewIdle /\ EdIdle /\ ParserIdle /\ ExportIdle /\ GroupIdle /\ EditsIdle

SpecCrypt == InitCrypt /\ [][CryptNext]_vars

InitView == ViewInit /\ GpsIdle /\ GeoIdle /\ TagIdle /\ EdIdle /\ CryptIdle /\ ParserIdle /\ ExportIdle /\ GroupIdle /\ EditsIdle

SpecView == InitView /\ [][ViewNext]_vars

InitTags == TagInit /\ GpsIdle /\ GeoIdle /\ ViewIdle /\ EdIdle /\ CryptIdle /\ ParserIdle /\ ExportIdle /\ GroupIdle /\ EditsIdle

SpecTags == InitTags /\ [][TagNext]_vars

InitHistory == HistoryInit /\ GpsIdle /\ GeoIdle /\ ViewIdle /\ EdIdle /\ CryptIdle /\ ParserIdle /\ ExportIdle /\ GroupIdle /\ EditsIdle

SpecHistory == InitHistory /\ [][HistoryNext]_vars

InitGeo == GeoInit /\ GpsIdle /\ TagIdle /\ ViewIdle /\ EdIdle /\ CryptIdle /\ ParserIdle /\ ExportIdle /\ GroupIdle /\ EditsIdle

SpecGeo == InitGeo /\ [][GeoNext]_vars
(***************************************************************************)
InitGps == GpsInit /\ GeoIdle /\ TagIdle /\ ViewIdle /\ EdIdle /\ CryptIdle /\ ParserIdle /\ ExportIdle /\ GroupIdle /\ EditsIdle

SpecGps == InitGps /\ [][GpsNext]_vars

InitGpsSet == GpsSetInit /\ GeoIdle /\ TagIdle /\ ViewIdle /\ EdIdle /\ CryptIdle /\ ParserIdle /\ ExportIdle /\ GroupIdle /\ EditsIdle

SpecGpsSet == InitGpsSet /\ [][GpsSetNext]_vars

InitGroup == GroupInit /\ GpsIdle /\ GeoIdle /\ TagIdle /\ ViewIdle /\ EdIdle /\ CryptIdle /\ ParserIdle /\ ExportIdle /\ EditsIdle

SpecGroup == InitGroup /\ [][GroupNext]_vars

InitEdits == EditsInit /\ GpsIdle /\ GeoIdle /\ TagIdle /\ EdIdle /\ CryptIdle /\ ParserIdle /\ ExportIdle /\ GroupIdle

SpecEdits == InitEdits /\ [][EditsNext]_vars


(***************************************************************************)
(* Properties of the GPS conversions (SpecGps)                             *)
(***************************************************************************)
Extracted == gps_op = "extract" /\ coords.ok

RefEquals(ifd, k, byte) == Has(ifd, k) /\ ifd[k] = <<byte>>

\* C1: extract_gps_coordinates returns a negated latitude exactly when the
\* stored GPSLatitudeRef is b'S' and a negated longitude exactly when the
\* stored GPSLongitudeRef is b'W'; every other reference, a missing one
\* included, leaves the value non-negative.
C1_HemisphereSign ==
    Extracted =>
        /\ IF RefEquals(gps_ifd, "GPSLatitudeRef", ByteS)
           THEN FEq(coords.lat, FNeg(dms_ret[1]))
           ELSE FEq(coords.lat, dms_ret[1]) /\ FLe(FZero, coords.lat)
        /\ IF RefEquals(gps_ifd, "GPSLongitudeRef", ByteW)
           THEN FEq(coords.lon, FNeg(dms_ret[2]))
           ELSE FEq(coords.lon, dms_ret[2]) /\ FLe(FZero, coords.lon)

\* three rationals with non-zero denominators
WellFormedDms(d) == Len(d) = 3 /\ \A i \in 1..3 : d[i][2] # 0

\* numerator and denominator of dn/dd + (mn/md)/60 + (sn/sd)/3600 as exact
\* natural numbers
ExactNum(d) ==
    BAdd(BAdd(BMul(BFromInt(d[1][1] * d[2][2]), BFromInt(d[3][2] * 3600)),
              BMul(BFromInt(d[2][1] * d[1][2]), BFromInt(d[3][2] * 60))),
         BFromInt(d[3][1] * d[1][2] * d[2][2]))
ExactDen(d) ==
    BMul(BFromInt(d[1][2] * d[2][2]), BFromInt(d[3][2] * 3600))

\* the non-negative float x is the exact value num/den up to a relative
\* error of 2^-50
BAbsDiff(a, b) == IF BCmp(a, b) >= 0 THEN BSub(a, b) ELSE BSub(b, a)
CloseTo(x, num, den) ==
    LET up   == IF x.e > 0 THEN x.e ELSE 0
        down == IF x.e < 0 THEN -x.e ELSE 0
        xs   == BShl(BMul(x.m, den), up)
        ns   == BShl(num, down)
    IN  ~x.neg /\ BCmp(BShl(BAbsDiff(xs, ns), 50), ns) <= 0

\* C2: for three rationals with non-zero denominators _dms_to_decimal returns
\* dn/dd + (mn/md)/60 + (sn/sd)/3600 (to float precision), a non-negative
\* value.
C2_DmsToDecimalValue ==
    Extracted =>
        /\ WellFormedDms(gps_ifd["GPSLatitude"]) =>
              CloseTo(dms_ret[1], ExactNum(gps_ifd["GPSLatitude"]),
                      ExactDen(gps_ifd["GPSLatitude"]))
        /\ WellFormedDms(gps_ifd["GPSLongitude"]) =>
              CloseTo(dms_ret[2], ExactNum(gps_ifd["GPSLongitude"]),
                      ExactDen(gps_ifd["GPSLongitude"]))

C2_Witness ==
    /\ Extracted
    /\ gps_ifd["GPSLatitude"] = << Rat(1, 2), Rat(2, 1), Rat(1, 2) >>
    /\ ~FIsZero(dms_ret[1])

\* a DMS value d/1, m/1, s/100 with m in 0..59 and s in 0..5999
IsGridDms(d) ==
    /\ Len(d) = 3
    /\ d[1][2] = 1 /\ d[2][2] = 1 /\ d[3][2] = 100
    /\ d[2][1] \in 0..MaxMin /\ d[3][1] \in 0..MaxSec100

\* the file's latitude went through _dms_to_decimal and back through the
\* decomposition of set_gps_coordinates
RoundTripDone ==
    /\ gps_op = "set" /\ gps_writes = 1
    /\ Has(gps_in, "GPSLatitude") /\ IsGridDms(gps_in["GPSLatitude"])

\* the angle in hundredths of an arc-second
Hundredths(d) == 360000 * d[1][1] + 6000 * d[2][1] + d[3][1]

\* C3 as claimed: the round trip keeps the degrees and the minutes, and the
\* seconds differ by at most 0.01.
C3_RoundTripComponents ==
    RoundTripDone =>
        LET a == gps_in["GPSLatitude"]
            b == gps_ifd["GPSLatitude"]
        IN  /\ b[1] = a[1]
            /\ b[2] = a[2]
            /\ b[3][2] = 100
            /\ a[3][1] - b[3][1] \in {-1, 0, 1}

\* C3 amended: the round trip yields a DMS value of the same form whose angle
\* is the original angle or 0.01 arc-second less; the degrees and the minutes
\* are not always kept (1 deg 1' 0.00" comes back as 1 deg 0' 59.99").
C3_RoundTripAngle ==
    RoundTripDone =>
        LET a == gps_in["GPSLatitude"]
            b == gps_ifd["GPSLatitude"]
        IN  /\ IsGridDms(b)
            /\ Hundredths(a) - Hundredths(b) \in {0, 1}

C3_Witness ==
    /\ RoundTripDone
    /\ gps_in["GPSLatitude"][3][1] > 0
    /\ Hundredths(gps_in["GPSLatitude"]) - Hundredths(gps_ifd["GPSLatitude"]) = 1


(***************************************************************************)
(* Properties of reverse_geocode (SpecGeo)                                 *)
(***************************************************************************)
Returned == geo_pc = "return"

\* C4: for every key (lat, lon) of LOCATION_DB, reverse_geocode(lat, lon)
\* computes a closest distance of 0 and returns the name stored under that
\* key.
C4_ExactMatch ==
    Returned =>
        \A i \in 1..DbSize :
            geo_query = << LOCATION_DB[i][1], LOCATION_DB[i][2] >> =>
                /\ ~geo_closest.inf
                /\ FIsZero(geo_closest.distance)
                /\ geo_ret = GeoName(LOCATION_DB[i][3])

C4_Witness ==
    /\ Returned
    /\ geo_query = << 223193, 1141694 >>
    /\ geo_ret.kind = "name" /\ geo_ret.name = "Hong Kong"

\* the digits of the decimal literal n / 10^4
Dec4Digits(n) ==
    LET a == IF n < 0 THEN -n ELSE n
    IN  [neg |-> n < 0, int |-> a \div 10000, frac |-> a % 10000]

\* every distance the loop computed is at least the threshold
AllFar == \A i \in 1..Len(geo_dists) : ~FLt(geo_dists[i], FFromInt(GeoThreshold))

\* C5: when the distance to every entry is at least 8, reverse_geocode
\* returns the fallback string made of the latitude and the longitude with
\* four decimals, and no location name.
C5_Fallback ==
    (Returned /\ AllFar) =>
        /\ geo_ret.kind = "coordinates"
        /\ geo_ret.name = ""
        /\ geo_ret.lat = Dec4Digits(geo_query[1])
        /\ geo_ret.lon = Dec4Digits(geo_query[2])

\* nine degrees north of Sydney: farther than 8 and nearer than 10
C5_Witness ==
    /\ Returned /\ AllFar
    /\ geo_query = << -338688 + 90000, 1512093 >>
    /\ geo_ret.kind = "coordinates"
    /\ geo_ret.lat = [neg |-> TRUE, int |-> 24, frac |-> 8688]
    /\ \E i \in 1..Len(geo_dists) : FLt(geo_dists[i], FFromInt(10))


(***************************************************************************)
(* Tag store                                                               *)
(***************************************************************************)
NoDup(l) == \A i \in 1..Len(l), j \in 1..Len(l) : l[i] = l[j] => i = j

\* the step is a call add_tag_to_image(image, tag) for a tag that is in the
\* image's list when the call is made
ReAdd ==
    /\ tag_call'.op = "add_tag_to_image"
    /\ tag_call'.image \in DOMAIN image_tags
    /\ tag_call'.tag \in Range(image_tags[tag_call'.image])

\* C6: no image's tag list ever holds the same tag twice, and
\* add_tag_to_image for a tag already in the image's list changes neither
\* image_tags nor tag_history.
C6_NoDuplicateTags ==
    /\ [](\A i \in DOMAIN image_tags : NoDup(image_tags[i]))
    /\ [][ReAdd => UNCHANGED <<image_tags, tag_history>>]_vars

\* add_tag_to_image has been called for a tag that its image, which carries
\* two tags, already had
C6_Witness ==
    /\ tag_call.op = "add_tag_to_image"
    /\ tag_call.outcome = "returned"
    /\ tag_call.image \in DOMAIN image_tags
    /\ tag_call.tag \in Range(image_tags[tag_call.image])
    /\ Len(image_tags[tag_call.image]) = 2

\* the step is a call remove_tag_from_image(image, tag) made when the image
\* has no entry or the tag is not in its list
RemoveAbsent ==
    /\ tag_call'.op = "remove_tag_from_image"
    /\ \/ tag_call'.image \notin DOMAIN image_tags
       \/ tag_call'.tag \notin Range(image_tags[tag_call'.image])

\* C7: remove_tag_from_image for an image without entry or a tag that is not
\* in the image's list leaves image_tags (no entry is created),
\* tags_hierarchy, tag_history and the JSON file unchanged.
C7_RemoveAbsentNoOp ==
    [][RemoveAbsent =>
         UNCHANGED <<image_tags, tags_hierarchy, tag_history, tags_db>>]_vars

\* remove_tag_from_image has been called, and returned, for an image that
\* has no entry, in a store that holds another image
C7_Witness ==
    /\ tag_call.op = "remove_tag_from_image"
    /\ tag_call.outcome = "returned"
    /\ tag_call.image \notin DOMAIN image_tags
    /\ image_tags # EmptyDict

\* the step is a call of add_tag_to_image or remove_tag_from_image that
\* changes a tag list
ListChange ==
    /\ tag_call'.op \in {"add_tag_to_image", "remove_tag_from_image"}
    /\ image_tags' # image_tags

\* C8: a call of add_tag_to_image or remove_tag_from_image that changes a
\* tag list returns normally, and after it the JSON file exists, holds the
\* in-memory image_tags, and a new TaggingSystem loads that mapping.
C8_PersistedAfterChange ==
    [][ListChange =>
         /\ tag_call'.outcome = "returned"
         /\ tags_db'.exists
         /\ tags_db'.data.image_tags = image_tags'
         /\ LoadTagsDb(tags_db').image_tags = image_tags']_vars

\* C9: no TaggingSystem call lets an exception propagate to its caller.
C9_NoExceptionPropagates == tag_call.outcome # "raised"


(***************************************************************************)
(* Backup before modification                                              *)
(***************************************************************************)
\* the calls that write to the image file
ModifyingCalls ==
    {"edit_exif_data", "set_file_timestamp", "privacy_mode",
     "remove_gps_data", "restore_backup"}

Modifications == { i \in 1..Len(view_log) : view_log[i].call \in ModifyingCalls }

\* C10: in the last handler every call that modifies the image file comes
\* after a create_backup call, and if create_backup returned None the handler
\* made no modifying call and the image file is as it was on entry.
C10_BackupBeforeModify ==
    /\ \A i \in Modifications :
         \E j \in 1..(i-1) : view_log[j].call = "create_backup"
    /\ (\E j \in 1..Len(view_log) : view_log[j] = Logged("create_backup", "None"))
         => Modifications = {} /\ img = view_pre

\* edit_metadata of metadata_viewer.py has run on an image with EXIF fields,
\* create_backup returned None, and the handler stopped there
C10_Witness ==
    /\ view_op.op = "edit_metadata"
    /\ view_log = << Logged("create_backup", "None") >>
    /\ view_pre.ok /\ view_pre.exif # EmptyExif


(***************************************************************************)
(* Restoring after a failed edit                                           *)
(***************************************************************************)
\* the last handler was edit_metadata (either viewer) and its edit_exif_data
\* call returned False
EditFailed ==
    /\ view_op.op \in {"edit_metadata", "edit_metadata_old"}
    /\ \E i \in 1..Len(view_log) : view_log[i] = Logged("edit_exif_data", "False")

StoredFor(stored, given) ==
    IF given.t = "str"
    THEN /\ stored.t = "bytes"
         /\ \A k \in 1..Len(stored.v) : stored.v[k] \in 0..255
         /\ Utf8Decode(stored.v) = given.v
    ELSE stored = given

EditCalled == ed_call.op = "edit_exif_data"

\* the entries of exif_updates whose key is in the table and maps to IFD i
KnownUpdates(i) ==
    { u \in Range(ed_call.arg) :
        u[1] \in DOMAIN EXIF_FIELD_MAPPING /\ EXIF_FIELD_MAPPING[u[1]][1] = i }

\* C12: edit_exif_data returns True when load, dump and save succeed (also
\* when no key is known); when it returns True the file holds, for every key
\* of exif_updates that is in EXIF_FIELD_MAPPING, the given value (a str as
\* its UTF-8 bytes) at the mapped IFD and tag, and every other tag is as it
\* was loaded: none added, none dropped, none changed.
C12_EditExifData ==
    EditCalled =>
        /\ (ed_pre.ok /\ ed_call.outcome = "ok") => ed_call.result
        /\ ed_call.result =>
             \A i \in IFDs :
                LET set == { EXIF_FIELD_MAPPING[u[1]][2] : u \in KnownUpdates(i) }
                IN  /\ \A u \in KnownUpdates(i) :
                          LET tag == EXIF_FIELD_MAPPING[u[1]][2]
                          IN  /\ tag \in DOMAIN ed_file.exif[i]
                              /\ StoredFor(ed_file.exif[i][tag], u[2])
                    /\ DOMAIN ed_file.exif[i] \ set = DOMAIN ed_pre.exif[i] \ set
                    /\ \A t \in DOMAIN ed_pre.exif[i] \ set :
                          ed_file.exif[i][t] = ed_pre.exif[i][t]

\* edit_exif_data has returned True for updates with an unknown key and a
\* non-ASCII str for Artist, on a file that had tags in the 0th IFD
C12_Witness ==
    /\ EditCalled /\ ed_call.result
    /\ ed_call.arg = << <<"Comment", PyInt(1)>>,
                        <<"Artist", PyStr(<<233, 8364>>)>> >>
    /\ ed_pre.exif["0th"] # EmptyDict
    /\ ed_file.exif["0th"][<<"ImageIFD", "Artist">>]
         = PyBytes(<<195, 169, 226, 130, 172>>)

PrivacyCalled == ed_call.op = "privacy_mode"

\* the categories that a privacy_mode call selects
Selected ==
    IF ed_call.arg = PyNone THEN {"GPS", "DateTime", "Personal"}
    ELSE Range(ed_call.arg.v)

\* tag t of IFD i has a name that SENSITIVE_FIELDS lists for a selected
\* category
Listed(i, t) ==
    /\ TagKnown(i, t)
    /\ \E c \in Selected \cap DOMAIN SENSITIVE_FIELDS :
          TagName(i, t) \in SENSITIVE_FIELDS[c]

\* C13: after privacy_mode returned True with 'All' not selected, in each of
\* the IFDs 0th, Exif, GPS and 1st no tag listed for a selected category is
\* left, every other tag is there with its value and no tag was added; with
\* categories omitted GPS, DateTime and Personal are selected.
C13_PrivacyMode ==
    (PrivacyCalled /\ ed_call.result /\ "All" \notin Selected) =>
        \A i \in IFDs :
            /\ DOMAIN ed_file.exif[i] =
                 { t \in DOMAIN ed_pre.exif[i] : ~Listed(i, t) }
            /\ \A t \in DOMAIN ed_file.exif[i] :
                 ed_file.exif[i][t] = ed_pre.exif[i][t]

\* privacy_mode without categories has returned True on a file with a Make
\* tag, an unknown tag, DateTimeOriginal and a DateTime tag in the 1st IFD:
\* the two date tags are gone, Make and the unknown tag are left
C13_Witness ==
    /\ PrivacyCalled /\ ed_call.result /\ ed_call.arg = PyNone
    /\ <<"ExifIFD", "DateTimeOriginal">> \in DOMAIN ed_pre.exif["Exif"]
    /\ <<"ImageIFD", "DateTime">> \in DOMAIN ed_pre.exif["1st"]
    /\ ed_file.exif["Exif"] = EmptyDict
    /\ ed_file.exif["1st"] = EmptyDict
    /\ { <<"ImageIFD", "Make">>, <<"unknown", "50000">> }
         \subseteq DOMAIN ed_file.exif["0th"]


(***************************************************************************)
(* Metadata "encryption"                                                   *)
(***************************************************************************)
Crypted == crypt.pc = "done"

\* C14 as stated: the two passwords give the same text, and decrypting with
\* the other password gives back the dict.
C14_KeylessRoundTrip ==
    Crypted => crypt.e1 = crypt.e2 /\ crypt.d = crypt.m

\* JSON keeps the value as it is: all dict keys are str and there is no tuple
RECURSIVE JsonFaithful(_)
JsonFaithful(x) ==
    IF x.t \in {"list", "tuple"}
    THEN x.t = "list" /\ \A k \in 1..Len(x.v) : JsonFaithful(x.v[k])
    ELSE IF x.t = "dict"
    THEN \A k \in 1..Len(x.v) : x.v[k][1].t = "str" /\ JsonFaithful(x.v[k][2])
    ELSE TRUE

\* C14: the two passwords give the same text, and decrypting with the other
\* password gives back the dict exactly when every dict key in it is a str
\* and it holds no tuple.
C14_KeylessEncoding ==
    Crypted =>
        /\ crypt.e1 = crypt.e2
        /\ crypt.d = crypt.m <=> JsonFaithful(crypt.m)

\* a dict with two str keys, a nested dict and a list has been encrypted with
\* two different passwords and decrypted to itself
C14_Witness ==
    /\ Crypted
    /\ crypt.p1 # crypt.p2
    /\ Len(crypt.m.v) = 2
    /\ crypt.m.v[1][2].t = "dict" /\ crypt.m.v[2][2].t = "list"
    /\ JsonFaithful(crypt.m)
    /\ crypt.d = crypt.m

(***************************************************************************)
(* Reading metadata                                                        *)
(***************************************************************************)
ExifCalled == parser.pc = "done" /\ parser.op = "get_exif_data"

\* a tag of the dict has a value that is not empty once shown; a MakerNote
\* counts when its data is not empty
ShowsValue(ifd) ==
    \E t \in DOMAIN ifd :
        IF t[2] = "MakerNote" THEN ifd[t].v # <<>>
        ELSE DisplayValue(ifd[t]) # <<>>
PrimaryYields(file) ==
    ~file.piexif.raises /\ \E i \in IFDs : ShowsValue(file.piexif.value[i])
FallbackYields(file) ==
    /\ file.piexif.raises /\ file.opens /\ ~file.pil.raises
    /\ \E t \in DOMAIN file.pil.value : DisplayValue(file.pil.value[t]) # <<>>

\* C15: get_exif_data uses the fallback reader exactly when the primary load
\* raises, never raises itself, returns {'Note': 'No EXIF data found'} when
\* neither reader yields a non-empty tag value, and never the empty dict
C15_GetExifData ==
    ExifCalled =>
        /\ parser.ret.fallback <=> parser.file.piexif.raises
        /\ ~parser.ret.raised
        /\ ~(PrimaryYields(parser.file) \/ FallbackYields(parser.file))
              => parser.ret.value = NoExifNote
        /\ DOMAIN parser.ret.value # {}

C15_Witness ==
    /\ ExifCalled
    /\ parser.file.piexif.raises /\ parser.file.opens /\ ~parser.file.pil.raises
    /\ DOMAIN parser.file.pil.value # {}
    /\ parser.ret.fallback
    /\ parser.ret.value = NoExifNote

AllCalled == parser.pc = "done" /\ parser.op = "get_all_metadata"

SameLetter(a, b) ==
    \/ a = b
    \/ a \in 65..90 /\ b = a + 32
    \/ b \in 65..90 /\ a = b + 32
SameIgnoringCase(x, y) ==
    Len(x) = Len(y) /\ \A i \in 1..Len(x) : SameLetter(x[i], y[i])
Flat(d) == \A k \in DOMAIN d : d[k].t \in {"str", "None"}

\* C16: get_all_metadata returns {'Error': 'Unsupported file format'} and
\* reads nothing of the file when the suffix, compared without regard to
\* case, is not in SUPPORTED_FORMATS; otherwise it returns exactly the keys
\* 'Basic Information', 'EXIF Data' and 'Image Properties', each a flat dict
C16_GetAllMetadata ==
    AllCalled =>
        IF \E f \in SUPPORTED_FORMATS : SameIgnoringCase(parser.file.suffix, f)
        THEN /\ DOMAIN parser.ret.value
                  = {"Basic Information", "EXIF Data", "Image Properties"}
             /\ \A k \in DOMAIN parser.ret.value : Flat(parser.ret.value[k])
        ELSE /\ parser.ret.value = Unsupported
             /\ parser.ret.reads = 0

C16_Witness ==
    /\ AllCalled
    /\ parser.file.suffix \notin SUPPORTED_FORMATS
    /\ "EXIF Data" \in DOMAIN parser.ret.value
    /\ parser.ret.reads > 0

(***************************************************************************)
(* Exporting metadata                                                      *)
(***************************************************************************)
Exported == export.pc = "done"

\* the lines of the layout: three header lines, then for every section its
\* header, a separator and one line per entry
EntryLines(data) ==
    IF data.t = "dict"
    THEN [ i \in 1..Len(data.v) |->
             data.v[i][1] \o <<58, 32>> \o StrOf(data.v[i][2]) ]
    ELSE << StrOf(data) >>
LayoutLines(name, now, metadata) ==
    << <<77, 101, 116, 97, 100, 97, 116, 97, 32, 69, 120, 112, 111, 114, 116, 32, 102, 111, 114, 58, 32>> \o name, <<69, 120, 112, 111, 114, 116, 32, 68, 97, 116, 101, 58, 32>> \o now, Repeat(61, SeparatorWidth), <<>> >>
    \o Concat([ i \in 1..Len(metadata) |->
                  << <<>>, <<91>> \o metadata[i][1] \o <<93>>,
                     Repeat(45, SeparatorWidth) >>
                  \o EntryLines(metadata[i][2]) ],
              1, Len(metadata))
    \o << <<>> >>

\* the lines of a file: what stands between its line feeds
LineFeeds(b) == { i \in 1..Len(b) : b[i] = 10 }
LineEnd(b, k) ==
    IF k > Cardinality(LineFeeds(b)) THEN Len(b) + 1
    ELSE CHOOSE i \in LineFeeds(b) :
             Cardinality({ j \in LineFeeds(b) : j < i }) = k - 1
LineStart(b, k) == IF k = 1 THEN 1 ELSE LineEnd(b, k - 1) + 1
FileLines(b) ==
    [ k \in 1..(Cardinality(LineFeeds(b)) + 1) |->
        SubSeq(b, LineStart(b, k), LineEnd(b, k) - 1) ]
Encoded(lines) == [ k \in 1..Len(lines) |-> Utf8Encode(lines[k]) ]

\* C17 as stated: export_metadata_to_file returns True and the file holds
\* the layout, one line per entry, nothing omitted or reordered
C17_FixedLayout ==
    Exported =>
        /\ export.out.ret
        /\ FileLines(export.out.file.bytes)
             = Encoded(LayoutLines(export.name, export.now, export.metadata))

SingleLine(str) == \A i \in 1..Len(str) : str[i] \notin {10, 13}
SingleLines(metadata) ==
    \A i \in 1..Len(metadata) :
        /\ SingleLine(metadata[i][1])
        /\ \A l \in Range(EntryLines(metadata[i][2])) : SingleLine(l)

\* C17: when the export file can be opened and every write succeeds,
\* export_metadata_to_file returns True and, provided no section name, key
\* or value holds a line break, the file holds the layout with one line per
\* entry, nothing omitted or reordered; when opening or a write fails it
\* returns False
C17_LayoutWhenWritten ==
    Exported =>
        LET all == Len(ExportWrites(export.name, export.now, export.metadata))
        IN  /\ export.out.ret <=> (export.opens /\ export.done = all)
            /\ (export.out.ret /\ SingleLines(export.metadata))
                 => FileLines(export.out.file.bytes)
                      = Encoded(LayoutLines(export.name, export.now,
                                            export.metadata))

C17_Witness ==
    /\ Exported /\ export.out.ret
    /\ Len(export.metadata) = 2
    /\ export.metadata[1][2].t = "dict" /\ Len(export.metadata[1][2].v) = 2
    /\ export.metadata[2][2].t = "str"
    /\ SingleLines(export.metadata)

(***************************************************************************)
(* Closest location                                                        *)
(***************************************************************************)
\* the entries whose computed distance no other entry undercuts
Minimisers == { i \in 1..Len(geo_dists) : \A j \in 1..Len(geo_dists) : ~FLt(geo_dists[j], geo_dists[i]) }
Earliest == CHOOSE i \in Minimisers : \A j \in Minimisers : i <= j

\* C18: reverse_geocode returns the name of the earliest entry of
\* LOCATION_DB at the least distance exactly when that distance is strictly
\* less than 8, the coordinate string otherwise, and never 'Unknown Location'
C18_ClosestWithinThreshold ==
    geo_pc = "return" =>
        /\ Len(geo_dists) = DbSize
        /\ IF FLt(geo_dists[Earliest], FFromInt(8))
           THEN geo_ret = GeoName(LOCATION_DB[Earliest][3])
           ELSE geo_ret = GeoFallback(FDec4(geo_query[1]), FDec4(geo_query[2]))
        /\ geo_ret.name # "Unknown Location"

C18_Witness ==
    /\ geo_pc = "return"
    /\ Cardinality(Minimisers) = 2
    /\ LOCATION_DB[Earliest][3] # LOCATION_DB[CHOOSE i \in Minimisers : i # Earliest][3]
    /\ geo_ret = GeoName(LOCATION_DB[Earliest][3])

(***************************************************************************)
(* Saved history and suggestions                                           *)
(***************************************************************************)
\* a call that ran save_tags_db
Saved == tag_call'.op = "import_tags_from_json" /\ tag_call'.result = "True"

KeptCount == IF Len(tag_history) < HistoryKept THEN Len(tag_history) ELSE HistoryKept
LastOfHistory == [ i \in 1..KeptCount |-> tag_history[Len(tag_history) - KeptCount + i] ]

\* C19: a save_tags_db that writes the file writes as history the last
\* min(1000, n) entries of the n entries of tag_history, in their order, and
\* leaves tag_history as it is
C19_SavedHistory ==
    [][Saved =>
         /\ tag_history' = tag_history
         /\ tags_db' # tags_db =>
               /\ tags_db'.exists
               /\ tags_db'.data.history = LastOfHistory
               /\ Len(tags_db'.data.history) <= HistoryKept]_vars

C19_Witness ==
    /\ tag_call.op = "import_tags_from_json" /\ tag_call.result = "True"
    /\ Len(tag_history) > HistoryKept
    /\ tags_db.exists /\ Len(tags_db.data.history) = HistoryKept
    /\ tags_db.data.history[1] = tag_history[Len(tag_history) - HistoryKept + 1]

\* the number of images that carry the tag
Usage(tag) == Cardinality({ i \in DOMAIN image_tags : tag \in Range(image_tags[i]) })

\* C20: get_tag_suggestions returns at most 10 tags of the hierarchy that
\* contain the partial tag without regard to case, in an order of
\* non-increasing number of images that carry them, and leaves out no
\* matching tag that more images carry than a returned one
C20_SuggestionsByUsage ==
    tag_call.op = "get_tag_suggestions" =>
        LET l == tag_call.suggestions
            match == { ct[2] : ct \in Matching(tags_hierarchy, tag_call.partial_tag) }
        IN  /\ Len(l) <= 10
            /\ Range(l) \subseteq match
            /\ \A i, j \in 1..Len(l) : i < j => Usage(l[i]) >= Usage(l[j])
            /\ \A t \in match \ Range(l) : \A i \in 1..Len(l) : Usage(t) <= Usage(l[i])

(***************************************************************************)
(* Writing and reading back coordinates (SpecGpsSet, SpecGps)              *)
(***************************************************************************)
\* a successful set_gps_coordinates was followed by an extract_gps_coordinates
\* on the same file that returned coordinates
SetThenExtracted ==
    /\ gps_set.called /\ gps_set.ret
    /\ gps_op = "extract" /\ coords.ok

\* 0.01 arc-second in degrees
ArcTolerance == FDivInt(FDivInt(FFromInt(1), 3600), 100)

\* y has the sign of x, is not larger in magnitude and is short of it by
\* less than 0.01 arc-second
ReadBack(x, y) ==
    /\ FLt(x, FZero) => FLe(y, FZero)
    /\ FLt(FZero, x) => FLe(FZero, y)
    /\ FLe(FAbs(y), FAbs(x))
    /\ FLt(FSub(FAbs(x), FAbs(y)), ArcTolerance)

\* C21: after a successful set_gps_coordinates(lat, lon) the coordinates that
\* extract_gps_coordinates returns have the signs of lat and lon, magnitudes
\* that do not exceed theirs, and fall short by less than 0.01 arc-second
C21_SetThenExtract ==
    SetThenExtracted =>
        /\ ReadBack(gps_set.latitude, coords.lat)
        /\ ReadBack(gps_set.longitude, coords.lon)

SetDone == gps_op = "set_to"

\* d is the integer part of the magnitude of x
IsFloorOfAbs(d, x) ==
    FLe(FFromInt(d), FAbs(x)) /\ FLt(FAbs(x), FFromInt(d + 1))

\* C22: set_gps_coordinates writes latitude and longitude as degrees/1,
\* minutes/1 and hundredths of seconds/100 with degrees the integer part of
\* the magnitude, minutes in 0..59 and hundredths in 0..5999; the reference
\* is b'S' (b'W') exactly for a negative latitude (longitude), else b'N'
\* (b'E'); GPSAltitude is written only when an altitude is given
C22_WrittenCoordinates ==
    [][gps_op' = "set_to" /\ gps_writes' # gps_writes =>
         /\ IsGridDms(gps_ifd'["GPSLatitude"])
         /\ IsFloorOfAbs(gps_ifd'["GPSLatitude"][1][1], gps_set'.latitude)
         /\ IsGridDms(gps_ifd'["GPSLongitude"])
         /\ IsFloorOfAbs(gps_ifd'["GPSLongitude"][1][1], gps_set'.longitude)
         /\ gps_ifd'["GPSLatitudeRef"]
              = IF FLt(gps_set'.latitude, FZero) THEN <<ByteS>> ELSE <<ByteN>>
         /\ gps_ifd'["GPSLongitudeRef"]
              = IF FLt(gps_set'.longitude, FZero) THEN <<ByteW>> ELSE <<ByteE>>
         /\ IF gps_set'.altitude.given
            THEN Has(gps_ifd', "GPSAltitude") /\ gps_ifd'["GPSAltitude"][2] = 100
            ELSE /\ Has(gps_ifd', "GPSAltitude") <=> Has(gps_ifd, "GPSAltitude")
                 /\ Has(gps_ifd', "GPSAltitude")
                      => gps_ifd'["GPSAltitude"] = gps_ifd["GPSAltitude"]]_vars

C22_Witness ==
    /\ SetDone
    /\ FLt(gps_set.latitude, FZero) /\ FLt(gps_set.longitude, FZero)
    /\ gps_ifd["GPSLatitude"][3][1] > 0
    /\ ~gps_set.altitude.given /\ ~Has(gps_ifd, "GPSAltitude")

\* C23: extract_gps_coordinates returns coordinates only when the GPS IFD
\* holds a latitude and a longitude that are three rationals with non-zero
\* denominators, and None otherwise
C23_NoneUnlessValid ==
    gps_op = "extract" /\ coords.ok =>
        /\ Truthy(gps_ifd, "GPSLatitude") /\ Truthy(gps_ifd, "GPSLongitude")
        /\ WellFormedDms(gps_ifd["GPSLatitude"])
        /\ WellFormedDms(gps_ifd["GPSLongitude"])

(***************************************************************************)
(* Grouping by location (SpecGroup)                                        *)
(***************************************************************************)
Grouped == groups.pc = "done"

\* the names that reverse_geocode gives for the input images with coordinates
InputNames ==
    { Located[groups.image_files[i]].name :
        i \in { i \in 1..Len(groups.image_files) :
                  Located[groups.image_files[i]].ok } }

PrivacyFailed ==
    /\ view_op.op = "enable_privacy_mode"
    /\ \E i \in 1..Len(view_log) : view_log[i] = Logged("privacy_mode", "False")

\* C25: after enable_privacy_mode in which privacy_mode returned False the
\* image file is identical to the backup taken when the handler began, which
\* holds the file as it was then.
C25_FileEqualsBackupAfterFailure ==
    PrivacyFailed => bak = Backup(view_pre) /\ img = bak.data

(***************************************************************************)
(* The single backup file (SpecEdits)                                      *)
(***************************************************************************)
\* the last run of edit_metadata made a backup and went on to edit
Edited ==
    /\ view_op.op = "edit_metadata"
    /\ view_log # <<>> /\ view_log[1] = Logged("create_backup", "path")

Calls(name) == { i \in 1..Len(view_log) : view_log[i].call = name }

\* in the last handler no set_file_timestamp call follows an edit_exif_data
\* call that returned False
StampOnlyAfterSuccess ==
    \A i \in Calls("set_file_timestamp") :
        \A j \in Calls("edit_exif_data") : j < i => view_log[j].result = "True"

\* the last handler was edit_metadata of metadata_viewer_old.py, its
\* edit_exif_data call returned True and its set_file_timestamp call False
StampFailedAfterEdit ==
    /\ view_op.op = "edit_metadata_old"
    /\ \E i \in 1..Len(view_log) : view_log[i] = Logged("edit_exif_data", "True")
    /\ \E i \in 1..Len(view_log) : view_log[i] = Logged("set_file_timestamp", "False")

====
